---- MODULE Spec2Model ----
(***************************************************************************)
(* CompliantVault: an ETH vault whose deposits and withdrawals are gated   *)
(* by an asynchronous verification request (contracts/CompliantVault.sol). *)
(* Every external call is one EVM transaction: it either runs to the end   *)
(* or reverts, and a revert rolls back every storage write and transfer.   *)
(***************************************************************************)
EXTENDS Integers, Sequences, FiniteSets, TLC

\* ------------------------------------------------------------------ bounds
MaxRequests == 3      \* request ids the oracle hands out in one run
MaxAmount == 1        \* largest msg.value / amount a caller tries
MaxComposedRequests == 2   \* requests dispatched where the vault is composed with script runs or a task

\* --------------------------------------------------------------- constants
WordBytes == 32       \* width of bytes32 / uint256 in bytes
ZeroAddress == 0      \* address(0)

\* Principals: 1 is an externally owned account, 2 is a contract account
\* whose receive function may refuse an incoming transfer.
Principals == {1, 2}
ContractAccounts == {2}

\* the account that deployed the vault: ConfirmedOwner(msg.sender)
Owner == 1

\* values a configuration field can take: 0 is what the constructor stored
ConfigValues == {0, 1}

IssuedIds == 1..MaxRequests
\* one id beyond what the oracle ever hands out: a never-issued request id
AllIds == 1..(MaxRequests + 1)

Amounts == 0..MaxAmount

\* ---------------------------------------------------------------- payloads
\* Functions.encodeUint256(n): 32-byte big-endian word (n < 256 here)
encodeUint256(n) == [i \in 1..WordBytes |-> IF i = WordBytes THEN n ELSE 0]

\* bytes32(response): the first 32 bytes, right-padded with zero bytes
toBytes32(response) ==
  [i \in 1..WordBytes |-> IF i <= Len(response) THEN response[i] ELSE 0]

\* the test uint256(bytes32(response)) == 1 of the callback
decodesToOne_nonzero(response) == toBytes32(response) # encodeUint256(0)
decodesToOne(response) == toBytes32(response) = encodeUint256(1)

\* success payloads the oracle may deliver: the words 0, 1, 2 and 2^256 - 1,
\* the single byte 0x01 (right-padded by bytes32, it decodes to 2^248), and
\* the empty payload 0x (bytes32 pads it to the zero word: it decodes to 0)
Responses ==
  { encodeUint256(0), encodeUint256(1), encodeUint256(2),
    [i \in 1..WordBytes |-> 255], <<1>>, <<>> }

\* error payloads the oracle may deliver (empty = no error)
Errors == { <<>>, <<69>> }

\* the (response, err) pairs a callback is tried with: every success payload
\* alone, and an error payload alone or next to a success payload
Payloads ==
  { <<response, <<>>>> : response \in Responses } \cup
  { <<response, err>> : response \in { <<>>, encodeUint256(1) }, err \in Errors \ { <<>> } }

\* ----------------------------------------------------------------- strings
\* a string is the sequence of its characters
DigitChars == <<"0", "1", "2", "3", "4", "5", "6", "7", "8", "9">>
HexChars == DigitChars \o <<"a", "b", "c", "d", "e", "f">>

\* width of an address in hexadecimal digits (20 bytes)
AddressHexDigits == 40

RECURSIVE Pow(_, _)
Pow(b, e) == IF e = 0 THEN 1 ELSE b * Pow(b, e - 1)

\* Strings.toString(uint256): decimal digits, most significant first, no
\* leading zeros ("0" for zero)
RECURSIVE toString(_)
toString(n) ==
  IF n < 10 THEN <<DigitChars[n + 1]>>
  ELSE toString(n \div 10) \o <<DigitChars[(n % 10) + 1]>>

\* Strings.toHexString(address): "0x" and 40 lower-case hexadecimal digits
\* (the addresses of the model are below 16^6, the higher digits are 0)
toHexString(addr) ==
  <<"0", "x">> \o
  [k \in 1..AddressHexDigits |->
     IF AddressHexDigits - k >= 6 THEN "0"
     ELSE HexChars[((addr \div Pow(16, AddressHexDigits - k)) % 16) + 1]]

\* string[] args of requestDeposit: the action id "0" and the sender
DEPOSIT_ACTION_ID == <<"0">>
WITHDRAWAL_ACTION_ID == <<"1">>
depositArgs(sender) == <<DEPOSIT_ACTION_ID, toHexString(sender)>>

\* string[] args of requestWithdrawal: "1", the sender, the decimal amount
withdrawalArgs_swapped(sender, amount) ==
  <<WITHDRAWAL_ACTION_ID, toString(amount), toHexString(sender)>>
withdrawalArgs(sender, amount) ==
  <<WITHDRAWAL_ACTION_ID, toHexString(sender), toString(amount)>>

\* ------------------------------------------------------------------ events
Event(name, args) == [name |-> name, args |-> args]
DepositRequest(id, r, a) == Event("DepositRequest", <<id, r, a>>)
WithdrawalRequest(id, r, a) == Event("WithdrawalRequest", <<id, r, a>>)
DepositRequestFulfilled_bare(id, r, a) == Event("DepositRequestFulfilled", <<r, a>>)
DepositRequestFulfilled(id, r, a) == Event("DepositRequestFulfilled", <<id, r, a>>)
WithdrawalRequestFulfilled(id, r, a) == Event("WithdrawalRequestFulfilled", <<id, r, a>>)
DepositRequestCancelled(id, r, a) == Event("DepositRequestCancelled", <<id, r, a>>)
WithdrawalRequestCancelled(id, r, a) == Event("WithdrawalRequestCancelled", <<id, r, a>>)
RequestFailed(message) == Event("RequestFailed", <<message>>)
UnknownRequestType == Event("UnknownRequestType", <<>>)
NoPendingRequest == Event("NoPendingRequest", <<>>)

\* ------------------------------------------------------------------- state
VARIABLES
  s_balances,   \* mapping(address => uint256)
  s_pending,    \* mapping(bytes32 => PendingRequest)
  vaultEth,     \* address(this).balance
  nextId,       \* the request id the oracle assigns next
  held,         \* per principal: value sent in with requestDeposit minus
                \* value the vault transferred back out to that principal
  applied,      \* per request id: how many callbacks applied an effect to it
  last,         \* the last transaction: call, outcome, logs, args sent
  s_oracle,         \* FunctionsClient: the oracle address
  s_subscriptionId, \* uint64 billing subscription id
  s_source,         \* string: the script sent with every request
  s_secrets,        \* bytes: the encrypted secrets sent with every request
  oracleRequests,   \* the oracle's log: per request id the args it was sent
  runId,            \* the request id the running script serves (0 = none)
  scriptArgs,       \* chainalysis.js: the global args of the run
  apiKey,           \* chainalysis.js: secrets.apiKey of the run
  pc,               \* chainalysis.js: the await the run is suspended at
  httpRequests,     \* the HTTP requests the run has issued, in order
  httpResponses,    \* the responses it has received, in order
  result,           \* what the run returned or threw
  taskName,         \* the hardhat task that is running ("" = none)
  taskPc,           \* where the executor of its promise stands
  taskRequestId,    \* its local requestId (0 = undefined)
  txRequestId,      \* the id the chain gave its request (0 = not sent)
  ocrResponseEventReceived,  \* functions-vault-request: flag
  billingEndEventReceived,   \* functions-vault-request: flag
  resolved,         \* resolve() of the promise has been called
  emitted,          \* events logged on chain, not yet handed to a listener
  observed          \* events handed to the listeners of the task

\* the configuration the owner operations write
config == <<s_oracle, s_subscriptionId, s_source, s_secrets>>

\* the oracle and the run of the checker script
script ==
  <<oracleRequests, runId, scriptArgs, apiKey, pc, httpRequests, httpResponses, result>>

\* a run of one of the request tasks and the events of the chain it hears
task ==
  <<taskName, taskPc, taskRequestId, txRequestId, ocrResponseEventReceived,
    billingEndEventReceived, resolved, emitted, observed>>

vars == <<s_balances, s_pending, vaultEth, nextId, held, applied, last, config, script, task>>

\* what a run that has not finished has produced
NoResult == [success |-> FALSE, result |-> <<>>]

\* the zero-initialised struct a mapping returns for an absent key
NoRequest == [requester |-> ZeroAddress, amount |-> 0, requestType |-> "Deposit"]

PendingRequest_deposit(requester, amount, requestType) ==
  [requester |-> requester, amount |-> amount, requestType |-> "Deposit"]
PendingRequest(requester, amount, requestType) ==
  [requester |-> requester, amount |-> amount, requestType |-> requestType]

NoCall == [op |-> "none", id |-> 0, error |-> "", events |-> <<>>, args |-> <<>>]

Init ==
  /\ s_balances = [p \in Principals |-> 0]
  /\ s_pending = [id \in AllIds |-> NoRequest]
  /\ vaultEth = 0
  /\ nextId = 1
  /\ held = [p \in Principals |-> 0]
  /\ applied = [id \in AllIds |-> 0]
  /\ last = NoCall
  /\ s_oracle = 0
  /\ s_subscriptionId = 0
  /\ s_source = 0
  /\ s_secrets = 0
  /\ oracleRequests = [id \in AllIds |-> <<>>]
  /\ runId = 0
  /\ scriptArgs = <<>>
  /\ apiKey = <<>>
  /\ pc = "idle"
  /\ httpRequests = <<>>
  /\ httpResponses = <<>>
  /\ result = NoResult
  /\ taskName = ""
  /\ taskPc = "idle"
  /\ taskRequestId = 0
  /\ txRequestId = 0
  /\ ocrResponseEventReceived = FALSE
  /\ billingEndEventReceived = FALSE
  /\ resolved = FALSE
  /\ emitted = {}
  /\ observed = {}

\* ----------------------------------------------------------------- helpers
\* s_balances[user] += amount (the checked addition cannot overflow: the
\* sum of all deposits is bounded by the ether in existence, below 2^256)
executeDeposit_other(bal, user, amount) ==
  [q \in Principals |-> IF q = user THEN bal[q] ELSE bal[q] + amount]
executeDeposit_debit(bal, user, amount) == [bal EXCEPT ![user] = @ - amount]
executeDeposit_assign(bal, user, amount) == [bal EXCEPT ![user] = amount]
executeDeposit(bal, user, amount) == [bal EXCEPT ![user] = @ + amount]

\* s_balances[user] -= amount, checked arithmetic (solidity ^0.8): the
\* subtraction panics when amount exceeds the balance
executeWithdraw_keep(bal, user, amount) == [ok |-> amount <= bal[user], bal |-> bal]
executeWithdraw(bal, user, amount) ==
  [ok |-> amount <= bal[user], bal |-> [bal EXCEPT ![user] = @ - amount]]

\* payable(user).transfer(amount): fails when the vault holds less than
\* amount or when the recipient does not accept the value
transfer(eth, amount, accepted) == amount <= eth /\ accepted

\* the outcomes a transfer to user can have on the recipient's side
\* (a callback that attempts no transfer has one outcome)
Accepts(user, response, err) ==
  IF user \in ContractAccounts /\ Len(err) = 0 THEN BOOLEAN ELSE {TRUE}

\* the request id the oracle returns from sendRequest: fresh on every call
sendRequest(n) == n

\* executeRequest: builds the request and returns sendRequest's id
executeRequest(n) == sendRequest(n)

\* the custom error requestDeposit reverts with ("" = none)
requestDepositError_none(value) == ""
requestDepositError(value) == IF value = 0 THEN "ZeroAmount" ELSE ""

\* the custom error requestWithdrawal reverts with ("" = none)
requestWithdrawalError_unchecked(bal, sender, amount) ==
  IF amount = 0 THEN "ZeroAmount" ELSE ""
requestWithdrawalError(bal, sender, amount) ==
  IF amount = 0 THEN "ZeroAmount"
  ELSE IF amount > bal[sender] THEN "InsufficientBalance"
  ELSE ""

\* ---------------------------------------------------------------- callback
\* outcome of one fulfillRequest call: the storage it leaves, the value it
\* pays to the requester, the logs it emits, the effect it applied to the
\* pending entry, and the error it reverted with ("" = completed)
Completed(bal, pend, eth, paid, events, effect) ==
  [error |-> "", bal |-> bal, pend |-> pend, eth |-> eth, paid |-> paid,
   events |-> events, effect |-> effect]

\* a revert rolls the whole call back: storage as before, nothing logged
Reverted(error, bal, pend, eth) ==
  [error |-> error, bal |-> bal, pend |-> pend, eth |-> eth, paid |-> 0,
   events |-> <<>>, effect |-> "None"]

\* request.requester == address(0): no entry is stored under the id
notPending_never(request) == FALSE
notPending(request) == request.requester = ZeroAddress

\* delete s_pending[requestId]
deleteRequest_keep(pend, requestId) == pend
deleteRequest_all(pend, requestId) == [id \in AllIds |-> NoRequest]
deleteRequest(pend, requestId) == [pend EXCEPT ![requestId] = NoRequest]

\* err.length > 0
hasError_never(err) == FALSE
hasError(err) == Len(err) > 0

fulfillRequest(bal, pend, eth, requestId, response, err, accepted) ==
  LET request == pend[requestId]
      deleted == deleteRequest(pend, requestId)
      debit == executeWithdraw(bal, request.requester, request.amount)
  IN
  IF notPending(request)
  THEN Completed(bal, pend, eth, 0, <<NoPendingRequest>>, "None")
  ELSE IF hasError(err)
  THEN Completed(bal, deleted, eth, 0, <<RequestFailed(err)>>, "Errored")
  ELSE IF request.requestType = "Deposit"
  THEN IF decodesToOne(response)
       THEN Completed(executeDeposit(bal, request.requester, request.amount),
                      deleted, eth, 0,
                      <<DepositRequestFulfilled(requestId, request.requester, request.amount)>>,
                      "Approved")
       ELSE IF transfer(eth, request.amount, accepted)
       THEN Completed(bal, deleted, eth - request.amount, request.amount,
                      <<DepositRequestCancelled(requestId, request.requester, request.amount)>>,
                      "Rejected")
       ELSE Reverted("TransferFailed", bal, pend, eth)
  ELSE IF request.requestType = "Withdrawal"
  THEN IF decodesToOne(response)
       THEN IF ~debit.ok
            THEN Reverted("Panic", bal, pend, eth)
            ELSE IF transfer(eth, request.amount, accepted)
            THEN Completed(debit.bal, deleted, eth - request.amount, request.amount,
                           <<WithdrawalRequestFulfilled(requestId, request.requester, request.amount)>>,
                           "Approved")
            ELSE Reverted("TransferFailed", bal, pend, eth)
       ELSE Completed(bal, deleted, eth, 0,
                      <<WithdrawalRequestCancelled(requestId, request.requester, request.amount)>>,
                      "Rejected")
  ELSE Completed(bal, deleted, eth, 0, <<UnknownRequestType>>, "None")

\* ----------------------------------------------------------------- actions
\* the record of a transaction: the call, the request id it concerned, the
\* error it reverted with ("" = completed) and the logs it emitted
Call(op, id, error, events) ==
  [op |-> op, id |-> id, error |-> error, events |-> events, args |-> <<>>]

\* the record of a dispatch that went through: args is the string[] it
\* handed to executeRequest
Sent(op, id, events, args) ==
  [op |-> op, id |-> id, error |-> "", events |-> events, args |-> args]

\* requestDeposit() external payable, called by sender with msg.value = value
Deposit(sender, value) ==
  LET error == requestDepositError(value)
      requestId == executeRequest(nextId)
  IN
  IF error # ""
  THEN /\ last' = Call("requestDeposit", 0, error, <<>>)
       /\ UNCHANGED <<s_balances, s_pending, vaultEth, nextId, held, applied, config>>
  ELSE /\ nextId <= MaxRequests
       /\ s_pending' = [s_pending EXCEPT ![requestId] = PendingRequest(sender, value, "Deposit")]
       /\ vaultEth' = vaultEth + value
       /\ nextId' = nextId + 1
       /\ held' = [held EXCEPT ![sender] = @ + value]
       /\ last' = Sent("requestDeposit", requestId,
                       <<DepositRequest(requestId, sender, value)>>, depositArgs(sender))
       /\ UNCHANGED <<s_balances, applied, config>>

RequestDeposit ==
  \E sender \in Principals, value \in Amounts : Deposit(sender, value) /\ UNCHANGED <<script, task>>

\* requestWithdrawal(amount) external, called by sender
Withdrawal(sender, amount) ==
  LET error == requestWithdrawalError(s_balances, sender, amount)
      requestId == executeRequest(nextId)
  IN
  IF error # ""
  THEN /\ last' = Call("requestWithdrawal", 0, error, <<>>)
       /\ UNCHANGED <<s_balances, s_pending, vaultEth, nextId, held, applied, config>>
  ELSE /\ nextId <= MaxRequests
       /\ s_pending' = [s_pending EXCEPT ![requestId] = PendingRequest(sender, amount, "Withdrawal")]
       /\ nextId' = nextId + 1
       /\ last' = Sent("requestWithdrawal", requestId,
                       <<WithdrawalRequest(requestId, sender, amount)>>,
                       withdrawalArgs(sender, amount))
       /\ UNCHANGED <<s_balances, vaultEth, held, applied, config>>

RequestWithdrawal ==
  \E sender \in Principals, amount \in Amounts :
    Withdrawal(sender, amount) /\ UNCHANGED <<script, task>>

\* the oracle's callback fulfillRequest(requestId, response, err); accepted
\* is whether the requester takes a transfer the callback attempts
Fulfill(requestId, response, err, accepted) ==
  \E r \in {fulfillRequest(s_balances, s_pending, vaultEth, requestId, response, err, accepted)} :
  LET requester == s_pending[requestId].requester IN
  /\ s_balances' = r.bal
  /\ s_pending' = r.pend
  /\ vaultEth' = r.eth
  /\ held' = IF r.paid > 0 THEN [held EXCEPT ![requester] = @ - r.paid] ELSE held
  /\ applied' = IF r.effect # "None" THEN [applied EXCEPT ![requestId] = @ + 1] ELSE applied
  /\ last' = Call("fulfillRequest", requestId, r.error, r.events)
  /\ UNCHANGED <<nextId, config>>

FulfillRequest ==
  \E requestId \in AllIds, payload \in Payloads :
    \E accepted \in Accepts(s_pending[requestId].requester, payload[1], payload[2]) :
      Fulfill(requestId, payload[1], payload[2], accepted) /\ UNCHANGED <<script, task>>

Next == RequestDeposit \/ RequestWithdrawal \/ FulfillRequest

Spec == Init /\ [][Next]_vars

\* -------------------------------------------------------- owner operations
\* the vault's own storage and funds, which no owner operation names
vault == <<s_balances, s_pending, vaultEth, nextId, held, applied>>

\* modifier onlyOwner: the revert reason for caller ("" = passes)
onlyOwner(caller) == IF caller # Owner THEN "Only callable by owner" ELSE ""

updateOracleAddress_anyone(caller, oracle) ==
  /\ last' = Call("updateOracleAddress", 0, "", <<>>)
  /\ s_oracle' = oracle
  /\ UNCHANGED <<vault, s_subscriptionId, s_source, s_secrets, script, task>>

\* updateOracleAddress(oracle) external onlyOwner: setOracle(oracle)
updateOracleAddress(caller, oracle) ==
  /\ last' = Call("updateOracleAddress", 0, onlyOwner(caller), <<>>)
  /\ s_oracle' = IF onlyOwner(caller) = "" THEN oracle ELSE s_oracle
  /\ UNCHANGED <<vault, s_subscriptionId, s_source, s_secrets, script, task>>

\* updateSubscriptionId(subscriptionId) external onlyOwner
updateSubscriptionId(caller, subscriptionId) ==
  /\ last' = Call("updateSubscriptionId", 0, onlyOwner(caller), <<>>)
  /\ s_subscriptionId' = IF onlyOwner(caller) = "" THEN subscriptionId ELSE s_subscriptionId
  /\ UNCHANGED <<vault, s_oracle, s_source, s_secrets, script, task>>

\* updateSource(source) external onlyOwner
updateSource(caller, source) ==
  /\ last' = Call("updateSource", 0, onlyOwner(caller), <<>>)
  /\ s_source' = IF onlyOwner(caller) = "" THEN source ELSE s_source
  /\ UNCHANGED <<vault, s_oracle, s_subscriptionId, s_secrets, script, task>>

updateSecrets_wipe(caller, secrets) ==
  /\ last' = Call("updateSecrets", 0, onlyOwner(caller), <<>>)
  /\ s_secrets' = IF onlyOwner(caller) = "" THEN secrets ELSE s_secrets
  /\ s_pending' = IF onlyOwner(caller) = "" THEN [id \in AllIds |-> NoRequest] ELSE s_pending
  /\ UNCHANGED <<s_balances, vaultEth, nextId, held, applied>>
  /\ UNCHANGED <<s_oracle, s_subscriptionId, s_source, script, task>>

\* updateSecrets(secrets) external onlyOwner
updateSecrets(caller, secrets) ==
  /\ last' = Call("updateSecrets", 0, onlyOwner(caller), <<>>)
  /\ s_secrets' = IF onlyOwner(caller) = "" THEN secrets ELSE s_secrets
  /\ UNCHANGED <<vault, s_oracle, s_subscriptionId, s_source, script, task>>

UpdateOracleAddress ==
  \E caller \in Principals, oracle \in ConfigValues : updateOracleAddress(caller, oracle)

UpdateSubscriptionId ==
  \E caller \in Principals, subscriptionId \in ConfigValues :
    updateSubscriptionId(caller, subscriptionId)

UpdateSource ==
  \E caller \in Principals, source \in ConfigValues : updateSource(caller, source)

UpdateSecrets ==
  \E caller \in Principals, secrets \in ConfigValues : updateSecrets(caller, secrets)

\* the vault with its owner operations
NextOwner ==
  \/ RequestDeposit \/ RequestWithdrawal \/ FulfillRequest
  \/ UpdateOracleAddress \/ UpdateSubscriptionId \/ UpdateSource \/ UpdateSecrets

SpecOwner == Init /\ [][NextOwner]_vars

\* ---------------------------------------------------------- chainalysis.js
\* the printable ASCII characters, code 32 to 126 (the double quote, the
\* backslash and the backtick are spelled out)
Ascii ==
  << " ", "!", "quote", "#", "$", "%", "&", "'", "(", ")", "*", "+",
     ",", "-", ".", "/", "0", "1", "2", "3", "4", "5", "6", "7",
     "8", "9", ":", ";", "<", "=", ">", "?", "@", "A", "B", "C",
     "D", "E", "F", "G", "H", "I", "J", "K", "L", "M", "N", "O",
     "P", "Q", "R", "S", "T", "U", "V", "W", "X", "Y", "Z", "[",
     "backslash", "]", "^", "_", "backtick", "a", "b", "c", "d", "e", "f", "g",
     "h", "i", "j", "k", "l", "m", "n", "o", "p", "q", "r", "s",
     "t", "u", "v", "w", "x", "y", "z", "{", "|", "}", "~" >>

\* the UTF-8 bytes of a string of printable ASCII characters
utf8(message) ==
  [i \in 1..Len(message) |-> 31 + (CHOOSE k \in 1..Len(Ascii) : Ascii[k] = message[i])]

\* args[i] of a JavaScript array, 0-based in the source, 1-based here:
\* reading past the end yields undefined
Undefined == <<"undefined">>
Arg(a, i) == IF i <= Len(a) THEN a[i] ELSE Undefined

\* ---- Number(string), the conversion of line 6 and of line 53 ----
\* A JavaScript number is an IEEE 754 double.  A finite double is kept as
\* the odd natural number mantissa (its decimal digits) and the power of
\* two exponent with value mantissa * 2^exponent, which names every double
\* once; 0 has no mantissa digit; NaN and the two infinities are values of
\* their own.  -0 and 0 are equal under every comparison the script makes
\* and are kept as one value.
NaN == [kind |-> "NaN", negative |-> FALSE, mantissa |-> <<>>, exponent |-> 0]
Infinity(negative) ==
  [kind |-> "Infinity", negative |-> negative, mantissa |-> <<>>, exponent |-> 0]
Zero == [kind |-> "number", negative |-> FALSE, mantissa |-> <<>>, exponent |-> 0]

IsIn(c, chars) == \E k \in 1..Len(chars) : chars[k] = c
IndexOf(c, str) ==
  IF IsIn(c, str) THEN CHOOSE k \in 1..Len(str) :
                         /\ str[k] = c
                         /\ \A j \in 1..(k - 1) : str[j] # c
  ELSE 0
DigitValue(c) ==
  IF IsIn(c, HexChars) THEN IndexOf(c, HexChars) - 1 ELSE IndexOf(c, (DigitChars \o <<"A", "B", "C", "D", "E", "F">>)) - 1

\* the part of str from its first to its last character other than c
Strip(str, c, atStart, atEnd) ==
  IF \A i \in 1..Len(str) : str[i] = c THEN <<>>
  ELSE LET from == IF atStart
                    THEN CHOOSE k \in 1..Len(str) :
                           str[k] # c /\ \A j \in 1..(k - 1) : str[j] = c
                    ELSE 1
           to == IF atEnd
                   THEN CHOOSE k \in 1..Len(str) :
                          str[k] # c /\ \A j \in (k + 1)..Len(str) : str[j] = c
                   ELSE Len(str)
       IN SubSeq(str, from, to)
\* StrWhiteSpace on both sides of the literal is skipped; the space is the
\* only white space of the printable ASCII characters
Trim(str) == Strip(str, " ", TRUE, TRUE)

\* the mathematical value digits * 10^exponent of a literal, exact, in its
\* normal form (no leading and no trailing zero)
Decimal(negative, digits, exponent) ==
  LET lead == Strip(digits, "0", TRUE, FALSE)
      sig == Strip(digits, "0", TRUE, TRUE)
  IN [kind |-> "decimal", negative |-> negative, digits |-> sig,
      exponent |-> IF sig = <<>> THEN 0 ELSE exponent + (Len(lead) - Len(sig))]

\* Exact arithmetic on s.d * 10^s.e, s.d a sequence of decimal digits, the
\* most significant first, without leading or trailing zero.
\* Twice: a digit doubled carries into the next exactly when it is 5 or more
Twice(s) ==
  LET n == Len(s.d)
      r == [i \in 1..(n + 1) |->
              IF i = 1 THEN (IF s.d[1] >= 5 THEN 1 ELSE 0)
              ELSE (2 * s.d[i - 1] + (IF i <= n /\ s.d[i] >= 5 THEN 1 ELSE 0)) % 10]
  IN [d |-> SubSeq(r, IF r[1] = 0 THEN 2 ELSE 1, IF r[n + 1] = 0 THEN n ELSE n + 1),
      e |-> s.e + (IF r[n + 1] = 0 THEN 1 ELSE 0)]
\* Half: five times the digits, a power of ten lower; a digit halved takes
\* 5 from an odd digit before it
Half(s) ==
  LET n == Len(s.d)
      t == Append(s.d, 0)
      h == [i \in 1..(n + 1) |->
              (t[i] \div 2) + (IF i > 1 /\ t[i - 1] % 2 = 1 THEN 5 ELSE 0)]
  IN [d |-> SubSeq(h, IF h[1] = 0 THEN 2 ELSE 1, IF h[n + 1] = 0 THEN n ELSE n + 1),
      e |-> s.e - (IF h[n + 1] = 0 THEN 0 ELSE 1)]
\* the integer part of s is less than bound, a number of 16 digits
Below(s, bound) ==
  \/ Len(s.d) + s.e < 16
  \/ /\ Len(s.d) + s.e = 16
     /\ \E i \in 1..16 :
          /\ (IF i <= Len(s.d) THEN s.d[i] ELSE 0) < bound[i]
          /\ \A j \in 1..(i - 1) : (IF j <= Len(s.d) THEN s.d[j] ELSE 0) = bound[j]
\* s times 2^q, exact: s doubled, or halved, once for each power of two
RECURSIVE TimesPowerOfTwo(_, _)
TimesPowerOfTwo(s, q) ==
  IF s.d = <<>> \/ q = 0 THEN s
  ELSE IF q = 1 THEN Twice(s)
  ELSE IF q = 0 - 1 THEN Half(s)
  ELSE CHOOSE v \in { TimesPowerOfTwo(r, q - (q \div 2)) :
                        r \in {TimesPowerOfTwo(s, q \div 2)} } : TRUE
\* s * 2^q written with 2^52 <= s < 2^53 (53 significant bits before the
\* point), or with q = -1074, the exponent of the subnormal doubles.  The
\* powers of two that surely do not pass the range are taken at once:
\* 10^x <= s < 10^(x+1) and 3321/1000 < log2(10), so s / 2^far >= 10^16
\* when x >= 16, and s * 2^far <= 10^15 when x < 14.  The digits are those
\* of 2^53 and of 2^52.
RECURSIVE Scale(_, _)
Scale(s, q) ==
  LET x == Len(s.d) + s.e - 1
      far == IF x >= 16 THEN ((x - 16) * 3321) \div 1000
             ELSE IF x >= 14 THEN 0
             ELSE IF ((14 - x) * 3321) \div 1000 > q + 1074 THEN 0 - (q + 1074)
             ELSE 0 - (((14 - x) * 3321) \div 1000)
  IN IF far # 0
     THEN CHOOSE v \in { Scale(r, q + far) : r \in {TimesPowerOfTwo(s, 0 - far)} } : TRUE
     ELSE IF ~Below(s, <<9, 0, 0, 7, 1, 9, 9, 2, 5, 4, 7, 4, 0, 9, 9, 2>>)
     THEN CHOOSE v \in { Scale(r, q + 1) : r \in {Half(s)} } : TRUE
     ELSE IF Below(s, <<4, 5, 0, 3, 5, 9, 9, 6, 2, 7, 3, 7, 0, 4, 9, 6>>) /\ q > 0 - 1074
     THEN CHOOSE v \in { Scale(r, q - 1) : r \in {Twice(s)} } : TRUE
     ELSE [s |-> s, q |-> q]
\* the natural number m * 2^q with as many factors 2 as m has, up to
\* 2 * step - 1 of them, moved to the power of two
RECURSIVE OddPart(_, _, _)
OddPart(m, q, step) ==
  IF step = 0 THEN [m |-> m, q |-> q]
  ELSE CHOOSE v \in { IF h.e >= 0 THEN OddPart(h, q + step, step \div 2)
                        ELSE OddPart(m, q, step \div 2) :
                        h \in {TimesPowerOfTwo(m, 0 - step)} } : TRUE

\* Round to nearest, ties to even: the digits of the natural number
\* nearest to s
Nearest(s) ==
  LET intLen == Len(s.d) + s.e
      floor == IF s.e >= 0 THEN s.d \o [i \in 1..s.e |-> 0]
               ELSE IF intLen <= 0 THEN <<>>
               ELSE SubSeq(s.d, 1, intLen)
      odd == intLen > 0 /\ (IF s.e > 0 THEN 0 ELSE s.d[intLen]) % 2 = 1
      \* the fraction against one half: 1 above, 0 equal, -1 below
      half == IF s.e >= 0 \/ intLen < 0 THEN 0 - 1
              ELSE IF s.d[intLen + 1] > 5 THEN 1
              ELSE IF s.d[intLen + 1] < 5 THEN 0 - 1
              ELSE IF intLen + 1 = Len(s.d) THEN 0 ELSE 1
      nines == IF \A i \in 1..Len(floor) : floor[i] = 9 THEN 0
               ELSE CHOOSE k \in 1..Len(floor) :
                      floor[k] # 9 /\ \A j \in (k + 1)..Len(floor) : floor[j] = 9
  IN IF ~(half = 1 \/ (half = 0 /\ odd)) THEN floor
     ELSE IF nines = 0 THEN <<1>> \o [i \in 1..Len(floor) |-> 0]
     ELSE SubSeq(floor, 1, nines - 1) \o <<floor[nines] + 1>>
            \o [i \in 1..(Len(floor) - nines) |-> 0]

\* The double of the exact value n.  A literal of more than 800
\* significant digits is cut there with one non-zero digit standing for
\* the rest: no double and no midpoint of two doubles has that many
\* digits, so the order to each of them is kept.  A result of 2^1024 or
\* more is an infinity.
RoundToDouble(n) ==
  CHOOSE v \in
    { IF exact.kind # "decimal" THEN exact
      ELSE IF exact.digits = <<>> THEN Zero
      ELSE IF exact.exponent + Len(exact.digits) - 1 > 309 THEN Infinity(exact.negative)
      ELSE IF exact.exponent + Len(exact.digits) - 1 < 0 - 326 THEN Zero
      ELSE CHOOSE w \in
        { CHOOSE x \in
            { IF m = <<>> THEN Zero
              ELSE IF \/ scaled.q > 971
                      \/ /\ scaled.q = 971
                         /\ ~Below([d |-> m, e |-> 0],
                                   <<9, 0, 0, 7, 1, 9, 9, 2, 5, 4, 7, 4, 0, 9, 9, 2>>)
              THEN Infinity(exact.negative)
              ELSE CHOOSE y \in
                { [kind |-> "number", negative |-> exact.negative,
                   mantissa |-> [i \in 1..Len(o.m.d) |-> DigitChars[o.m.d[i] + 1]],
                   exponent |-> o.q] :
                  o \in { OddPart([d |-> Strip(m, 0, FALSE, TRUE),
                                   e |-> Len(m) - Len(Strip(m, 0, FALSE, TRUE))],
                                  scaled.q, 32) } } : TRUE :
              m \in { Nearest(scaled.s) } } : TRUE :
          scaled \in
            { Scale(cut, 0) :
              cut \in { IF Len(exact.digits) > 800
                        THEN [d |-> [i \in 1..801 |->
                                       IF i = 801 THEN 1
                                       ELSE DigitValue(exact.digits[i])],
                              e |-> exact.exponent + Len(exact.digits) - 801]
                        ELSE [d |-> [i \in 1..Len(exact.digits) |->
                                       DigitValue(exact.digits[i])],
                              e |-> exact.exponent] } } } : TRUE :
      exact \in {n} } : TRUE

\* the number a JavaScript integer literal of the script stands for
FromInt(n) ==
  IF n = 0 THEN Zero
  ELSE LET q == CHOOSE k \in 0..30 : n % (2 ^ k) = 0 /\ (n \div (2 ^ k)) % 2 = 1
       IN [kind |-> "number", negative |-> FALSE,
           mantissa |-> toString(n \div (2 ^ q)), exponent |-> q]

\* the value of a string of decimal digits
RECURSIVE DecimalValue(_)
DecimalValue(str) ==
  IF Len(str) = 0 THEN 0
  ELSE 10 * DecimalValue(SubSeq(str, 1, Len(str) - 1)) + DigitValue(str[Len(str)])
\* the value of the digits of an ExponentPart.  A string of the engine has
\* fewer than 2^30 characters, so from 10^9 on the exponent decides alone
\* between 0 and an infinity whatever the digits before it are, and is
\* kept as 10^9.
ExponentValue(str) ==
  LET sig == Strip(str, "0", TRUE, FALSE)
  IN IF Len(sig) > 9 THEN 1000000000 ELSE DecimalValue(sig)

\* the sum of two natural numbers, each a sequence of decimal digits: a
\* place takes a carry when a place after it overflows and every place
\* between them holds 9
Add(a, b) ==
  LET n == IF Len(a) > Len(b) THEN Len(a) ELSE Len(b)
      sum(i) == (IF i > n - Len(a) THEN a[i - (n - Len(a))] ELSE 0)
                  + (IF i > n - Len(b) THEN b[i - (n - Len(b))] ELSE 0)
      carry(i) == \E j \in (i + 1)..n :
                    sum(j) >= 10 /\ \A k \in (i + 1)..(j - 1) : sum(k) = 9
  IN (IF carry(0) THEN <<1>> ELSE <<>>)
       \o [i \in 1..n |-> (sum(i) + (IF carry(i) THEN 1 ELSE 0)) % 10]
\* the decimal digits of the natural number that the digits str have in
\* base 2^bits: the first half of them, moved up, and the second half
RECURSIVE RadixValue(_, _)
RadixValue(str, bits) ==
  IF Len(str) = 1
  THEN IF DigitValue(str[1]) = 0 THEN <<>>
       ELSE [i \in 1..Len(toString(DigitValue(str[1]))) |->
               DigitValue(toString(DigitValue(str[1]))[i])]
  ELSE CHOOSE v \in
         { IF hi = <<>> THEN lo
           ELSE CHOOSE w \in
                  { Add(up.d \o [i \in 1..up.e |-> 0], lo) :
                    up \in { TimesPowerOfTwo(
                               [d |-> Strip(hi, 0, FALSE, TRUE),
                                e |-> Len(hi) - Len(Strip(hi, 0, FALSE, TRUE))],
                               (Len(str) - (Len(str) \div 2)) * bits) } } : TRUE :
           hi \in { RadixValue(SubSeq(str, 1, Len(str) \div 2), bits) },
           lo \in { RadixValue(SubSeq(str, (Len(str) \div 2) + 1, Len(str)), bits) } } : TRUE
\* NonDecimalIntegerLiteral: the digits after 0x, 0o or 0b, of 4, 3 or 1
\* bits each.  A literal of more than 1025 significant digits is 2^1024
\* or more in each of the bases.
NonDecimal(str, bits) ==
  IF Len(str) = 0 \/ \E i \in 1..Len(str) :
                       \/ ~IsIn(str[i], HexChars) /\ ~IsIn(str[i], (DigitChars \o <<"A", "B", "C", "D", "E", "F">>))
                       \/ DigitValue(str[i]) >= 2 ^ bits
  THEN NaN
  ELSE IF Strip(str, "0", TRUE, FALSE) = <<>> THEN Decimal(FALSE, <<>>, 0)
  ELSE IF Len(Strip(str, "0", TRUE, FALSE)) > 1025 THEN Infinity(FALSE)
  ELSE CHOOSE n \in
         { Decimal(FALSE, [i \in 1..Len(v) |-> DigitChars[v[i] + 1]], 0) :
           v \in { RadixValue(Strip(str, "0", TRUE, FALSE), bits) } } : TRUE

\* StrUnsignedDecimalLiteral: Infinity, or digits with an optional point
\* and an optional exponent part
UnsignedDecimal(str, negative) ==
  IF str = <<"I", "n", "f", "i", "n", "i", "t", "y">> THEN Infinity(negative)
  ELSE LET ePos == IF IsIn("e", str) /\ (~IsIn("E", str) \/ IndexOf("e", str) < IndexOf("E", str))
                   THEN IndexOf("e", str) ELSE IndexOf("E", str)
           mantissa == IF ePos = 0 THEN str ELSE SubSeq(str, 1, ePos - 1)
           exponentPart == IF ePos = 0 THEN <<>> ELSE SubSeq(str, ePos + 1, Len(str))
           signed == Len(exponentPart) > 0 /\ exponentPart[1] \in {"+", "-"}
           exponentDigits == IF signed THEN Tail(exponentPart) ELSE exponentPart
           point == IndexOf(".", mantissa)
           whole == IF point = 0 THEN mantissa ELSE SubSeq(mantissa, 1, point - 1)
           fraction == IF point = 0 THEN <<>> ELSE SubSeq(mantissa, point + 1, Len(mantissa))
           magnitude == ExponentValue(exponentDigits)
       IN IF \/ \E i \in 1..Len(whole) : ~IsIn(whole[i], DigitChars)
             \/ \E i \in 1..Len(fraction) : ~IsIn(fraction[i], DigitChars)
             \/ Len(whole) + Len(fraction) = 0
             \/ \E i \in 1..Len(exponentDigits) : ~IsIn(exponentDigits[i], DigitChars)
             \/ ePos # 0 /\ Len(exponentDigits) = 0
          THEN NaN
          ELSE Decimal(negative, whole \o fraction,
                       (IF signed /\ exponentPart[1] = "-" THEN 0 - magnitude ELSE magnitude)
                         - Len(fraction))

\* Number(value) on undefined, or on a string (StringToNumber): the
\* literal of the trimmed string, rounded to a double
Number(str) ==
  LET s == Trim(str)
  IN IF str = Undefined THEN NaN
     ELSE IF s = <<>> THEN Zero
     ELSE IF Len(s) >= 2 /\ s[1] = "0" /\ s[2] \in {"x", "X"}
     THEN RoundToDouble(NonDecimal(SubSeq(s, 3, Len(s)), 4))
     ELSE IF Len(s) >= 2 /\ s[1] = "0" /\ s[2] \in {"o", "O"}
     THEN RoundToDouble(NonDecimal(SubSeq(s, 3, Len(s)), 3))
     ELSE IF Len(s) >= 2 /\ s[1] = "0" /\ s[2] \in {"b", "B"}
     THEN RoundToDouble(NonDecimal(SubSeq(s, 3, Len(s)), 1))
     ELSE IF s[1] \in {"+", "-"}
     THEN RoundToDouble(UnsignedDecimal(Tail(s), s[1] = "-"))
     ELSE RoundToDouble(UnsignedDecimal(s, FALSE))

\* the quotient of a number and 10 ** k, which is a double itself up to
\* k = 22: the exact decimal value of the dividend (its mantissa doubled,
\* or halved, once for each power of two), k powers of ten lower, rounded
\* to a double
DividedByPowerOfTen(n, k) ==
  CHOOSE v \in
    { IF dividend.kind # "number" \/ dividend.mantissa = <<>> THEN dividend
      ELSE CHOOSE w \in
             { RoundToDouble([kind |-> "decimal", negative |-> dividend.negative,
                              digits |-> [i \in 1..Len(s.d) |-> DigitChars[s.d[i] + 1]],
                              exponent |-> s.e - k]) :
               s \in { TimesPowerOfTwo(
                         [d |-> [i \in 1..Len(dividend.mantissa) |->
                                   DigitValue(dividend.mantissa[i])],
                          e |-> 0], dividend.exponent) } } : TRUE :
      dividend \in {n} } : TRUE

RequestType_two == [Deposit |-> 0, Withdrawal |-> 2]

\* const RequestType = { Deposit: 0, Withdrawal: 1 }
RequestType == [Deposit |-> 0, Withdrawal |-> 1]

\* the messages of the two errors the script throws by itself
ApiKeyMissing ==
  <<"C", "H", "A", "I", "N", "A", "L", "Y", "S", "I", "S", "_", "A", "P", "I", "_", "K", "E", "Y", " ", "e", "n", "v", "i", "r", "o", "n", "m", "e", "n", "t", " ", "v", "a", "r", "i", "a", "b", "l", "e", " ", "n", "o", "t", " ", "s", "e", "t", " ", "f", "o", "r", " ", "C", "h", "a", "i", "n", "a", "l", "y", "s", "i", "s", " ", "A", "P", "I">>
InvalidRequestType == <<"I", "n", "v", "a", "l", "i", "d", " ", "r", "e", "q", "u", "e", "s", "t", " ", "t", "y", "p", "e">>

\* the values secrets.apiKey can have: the empty string of an unset
\* environment variable, a key, or undefined when the secrets have no apiKey
ApiKeys == { <<>>, <<"k", "e", "y">>, Undefined }

\* secrets.apiKey == "": loose equality, true of the empty string and false
\* of a non-empty string and of undefined
apiKeyUnset_never(key) == FALSE
apiKeyUnset(key) == key = <<>>

\* HTTP statuses a call can return, and the status texts next to an
\* unexpected one (empty: the error message falls back to the status)
Statuses == {200, 201, 202, 403}
StatusTexts == { <<>>, <<"F", "o", "r", "b", "i", "d", "d", "e", "n">> }

\* what the reads can report
Risks == {"Low", "Medium", "High", "Severe"}
Null == "null"
DirectNames == {Null, "Darknet Market"}
AlertLists == { <<>>, <<"alert">>, <<"alert", "alert">> }
ExternalIds == {"externalId"}

\* a JavaScript object is a record; {} is the object without a property,
\* and reading a property an object does not have gives undefined
EmptyObject == [property \in {} |-> property]
Has(object, property) == property \in DOMAIN object

\* the bodies a call of each kind can come back with on the expected
\* status: the documented one with each value, and a body without the
\* property the script reads
RegisterBodies == { EmptyObject }
RiskBodies == { [risk |-> r] : r \in Risks } \cup { EmptyObject }
RegistrationBodies == { [externalId |-> e] : e \in ExternalIds } \cup { EmptyObject }
ExposuresBodies ==
  { [direct |-> [name |-> n]] : n \in DirectNames } \cup
  { [direct |-> EmptyObject], EmptyObject }
AlertsBodies == { [alerts |-> l] : l \in AlertLists } \cup { EmptyObject }

\* the error response object of Functions.makeHttpRequest: the call failed
\* (no answer, a timeout, a status the HTTP client rejects) and the object
\* has neither status nor statusText
ErrorResponse == [error |-> TRUE, message |-> <<"t", "i", "m", "e", "o", "u", "t">>]

\* Functions.makeHttpRequest({method, url, data}): the request record
HttpRequest(method, url, param, data) ==
  [method |-> method, url |-> url, param |-> param, data |-> data]

\* POST /api/risk/v2/entities with data { address }
depositRegistration(address) == HttpRequest("POST", "risk/v2/entities", <<>>, <<address>>)

\* GET /api/risk/v2/entities/${address}
riskRead(address) == HttpRequest("GET", "risk/v2/entities/", address, <<>>)

\* const assetAmount = amount / 10 ** 18: the string converted as Number
\* converts it, divided
assetAmount(amount) == DividedByPowerOfTen(Number(amount), 18)

\* POST /api/kyt/v2/users/${userId}/withdrawal-attempts with the address and
\* the asset amount (the random user id, the random attempt identifier and
\* the timestamp of the body steer nothing and are left out)
withdrawalRegistration(address, amount) ==
  HttpRequest("POST", "kyt/v2/users/withdrawal-attempts", <<>>,
              <<address, assetAmount(amount)>>)

\* GET /api/kyt/v2/withdrawal-attempts/${id}/exposures and .../alerts
exposuresRead(id) == HttpRequest("GET", "kyt/v2/withdrawal-attempts/exposures", id, <<>>)
alertsRead(id) == HttpRequest("GET", "kyt/v2/withdrawal-attempts/alerts", id, <<>>)

\* the status each call is checked against
ExpectedStatus(request) ==
  IF request.url = "risk/v2/entities" THEN 201
  ELSE IF request.url = "kyt/v2/users/withdrawal-attempts" THEN 202
  ELSE 200

\* the responses a call is tried with: the expected status with each body,
\* every other status with each status text and an empty body, and the
\* error response object
Responses_of(request, bodies) ==
  { [status |-> ExpectedStatus(request), statusText |-> <<>>, data |-> d] : d \in bodies } \cup
  { [status |-> st, statusText |-> t, data |-> EmptyObject] :
      st \in Statuses \ {ExpectedStatus(request)}, t \in StatusTexts } \cup
  { ErrorResponse }

\* response.status !== status: the call did not return what is expected
\* (the status of an error response object is undefined)
unexpected_never(response, status) == FALSE
unexpected(response, status) ==
  IF Has(response, "status") THEN response.status # status ELSE TRUE

\* throw Error(response.statusText || response.status): the message, the
\* empty string when both are undefined
errorMessage(response) ==
  IF Has(response, "statusText") /\ response.statusText # <<>> THEN response.statusText
  ELSE IF Has(response, "status") THEN toString(response.status)
  ELSE <<>>

\* the message of the TypeError of reading property of undefined
CannotRead(property) ==
  <<"C", "a", "n", "n", "o", "t", " ", "r", "e", "a", "d", " ", "p", "r", "o", "p", "e", "r", "t", "i", "e", "s", " ", "o", "f", " ", "u", "n", "d", "e", "f", "i", "n", "e", "d", " ", "(", "r", "e", "a", "d", "i", "n", "g", " ", "'">> \o property \o <<"'", ")">>

\* a run that threw: FunctionsSandboxLibrary reports failure and the error
\* becomes the error payload of the callback, which is never empty (exactly
\* one of the two payloads of a callback is non-empty). Of an error with a
\* message the payload is the message bytes; of an error without one the
\* bytes are not fixed: any non-empty payload
Thrown(message) ==
  { [success |-> FALSE, result |-> bytes] :
      bytes \in IF message # <<>>
                 THEN { utf8(message) }
                 ELSE { error \in Errors : error # <<>> } \cup
                      { utf8(<<"E", "r", "r", "o", "r">>) } }

\* a run that returned a buffer
Returned(buffer) == { [success |-> TRUE, result |-> buffer] }

\* riskResponse.data.risk === "Low" ? 1 : 0
depositCompliant_notHigh(risk) == IF risk # "High" THEN 1 ELSE 0
depositCompliant(risk) == IF risk = "Low" THEN 1 ELSE 0

\* !hasDirectExposure && !hasAlerts ? 1 : 0
withdrawalCompliant_either(hasDirectExposure, hasAlerts) ==
  IF ~hasDirectExposure \/ ~hasAlerts THEN 1 ELSE 0
withdrawalCompliant(hasDirectExposure, hasAlerts) ==
  IF ~hasDirectExposure /\ ~hasAlerts THEN 1 ELSE 0

\* everything but the run of the script
chain == <<vault, last, config, task>>

\* the script ends with one of the outcomes: pc and result say how
finish(outcomes) ==
  /\ pc' = "done"
  /\ result' \in outcomes

\* the script suspends at an await after issuing request
await(label, request) ==
  /\ pc' = label
  /\ httpRequests' = Append(httpRequests, request)
  /\ result' = NoResult

\* lines 6-23: the script starts with args a and secrets.apiKey key for the
\* request id and runs to its first await or to its first throw
Begin(id, a, key) ==
  LET requestType == Number(Arg(a, 1))
      address == Arg(a, 2)
      amount == Arg(a, 3)
  IN
  /\ pc = "idle"
  /\ runId' = id
  /\ scriptArgs' = a
  /\ apiKey' = key
  /\ httpResponses' = <<>>
  /\ IF apiKeyUnset(key)
     THEN finish(Thrown(ApiKeyMissing)) /\ httpRequests' = <<>>
     ELSE IF requestType = FromInt(RequestType.Deposit)
     THEN await("registerResponse", depositRegistration(address))
     ELSE IF requestType = FromInt(RequestType.Withdrawal)
     THEN await("registrationResponse", withdrawalRegistration(address, amount))
     ELSE finish(Thrown(InvalidRequestType)) /\ httpRequests' = <<>>

\* the text a template literal or a comparison sees for undefined
UndefinedText == "undefined"

\* const id = registrationResponse.data.externalId, as the URLs spell it
externalId(response) ==
  IF Has(response.data, "externalId") THEN response.data.externalId ELSE UndefinedText

\* exposuresResponse.data.direct.name !== null: true of a name and of a
\* direct object without a name
directExposure(response) ==
  IF Has(response.data.direct, "name") THEN response.data.direct.name # Null ELSE TRUE

\* checkDeposit lines 26-34: the registration call returns
registerResponse(response) ==
  /\ pc = "registerResponse"
  /\ httpResponses' = Append(httpResponses, response)
  /\ IF unexpected(response, 201)
     THEN finish(Thrown(errorMessage(response))) /\ UNCHANGED httpRequests
     ELSE await("riskResponse", riskRead(Arg(scriptArgs, 2)))
  /\ UNCHANGED <<chain, oracleRequests, runId, scriptArgs, apiKey>>

\* checkDeposit lines 36-46: the risk read returns
riskResponse(response) ==
  /\ pc = "riskResponse"
  /\ httpResponses' = Append(httpResponses, response)
  /\ IF unexpected(response, 200)
     THEN finish(Thrown(errorMessage(response)))
     ELSE finish(Returned(encodeUint256(depositCompliant(
                   IF Has(response.data, "risk") THEN response.data.risk ELSE UndefinedText))))
  /\ UNCHANGED <<chain, oracleRequests, runId, scriptArgs, apiKey, httpRequests>>

\* checkWithdrawal lines 55-71: the registration call returns
registrationResponse(response) ==
  /\ pc = "registrationResponse"
  /\ httpResponses' = Append(httpResponses, response)
  /\ IF unexpected(response, 202)
     THEN finish(Thrown(errorMessage(response))) /\ UNCHANGED httpRequests
     ELSE await("exposuresResponse", exposuresRead(externalId(response)))
  /\ UNCHANGED <<chain, oracleRequests, runId, scriptArgs, apiKey>>

\* checkWithdrawal lines 73-80: the exposures read returns
exposuresResponse(response) ==
  /\ pc = "exposuresResponse"
  /\ httpResponses' = Append(httpResponses, response)
  /\ IF unexpected(response, 200)
     THEN finish(Thrown(errorMessage(response))) /\ UNCHANGED httpRequests
     ELSE IF ~Has(response.data, "direct")
     THEN finish(Thrown(CannotRead(<<"n", "a", "m", "e">>))) /\ UNCHANGED httpRequests
     ELSE await("alertsResponse", alertsRead(externalId(httpResponses[1])))
  /\ UNCHANGED <<chain, oracleRequests, runId, scriptArgs, apiKey>>

\* checkWithdrawal lines 82-93: the alerts read returns
alertsResponse(response) ==
  LET hasDirectExposure == directExposure(httpResponses[2])
      hasAlerts == Len(response.data.alerts) > 0
  IN
  /\ pc = "alertsResponse"
  /\ httpResponses' = Append(httpResponses, response)
  /\ IF unexpected(response, 200)
     THEN finish(Thrown(errorMessage(response)))
     ELSE IF ~Has(response.data, "alerts")
     THEN finish(Thrown(CannotRead(<<"l", "e", "n", "g", "t", "h">>)))
     ELSE finish(Returned(encodeUint256(withdrawalCompliant(hasDirectExposure, hasAlerts))))
  /\ UNCHANGED <<chain, oracleRequests, runId, scriptArgs, apiKey, httpRequests>>

\* the HTTP request the run is waiting on
Awaited == httpRequests[Len(httpRequests)]

RegisterResponse ==
  /\ pc = "registerResponse"
  /\ \E response \in Responses_of(Awaited, RegisterBodies) : registerResponse(response)

RiskResponse ==
  /\ pc = "riskResponse"
  /\ \E response \in Responses_of(Awaited, RiskBodies) : riskResponse(response)

RegistrationResponse ==
  /\ pc = "registrationResponse"
  /\ \E response \in Responses_of(Awaited, RegistrationBodies) : registrationResponse(response)

ExposuresResponse ==
  /\ pc = "exposuresResponse"
  /\ \E response \in Responses_of(Awaited, ExposuresBodies) : exposuresResponse(response)

AlertsResponse ==
  /\ pc = "alertsResponse"
  /\ \E response \in Responses_of(Awaited, AlertsBodies) : alertsResponse(response)

\* the run is over and the script is ready for the next one
idle ==
  /\ runId' = 0
  /\ scriptArgs' = <<>>
  /\ apiKey' = <<>>
  /\ pc' = "idle"
  /\ httpRequests' = <<>>
  /\ httpResponses' = <<>>
  /\ result' = NoResult

\* ---- the script by itself
\* argument lists a run can be given: what the vault sends for each
\* principal and amount, and lists the vault never sends (other kinds,
\* kinds spelled as Number accepts them, an amount of wei that is no
\* double, and an address without the 0x prefix with the amount 1000, as
\* the integration tests pass them)
SentArgs ==
  { depositArgs(p) : p \in Principals } \cup
  { withdrawalArgs(p, a) : p \in Principals, a \in Amounts \ {0} }
\* args of the integration tests: an address of their own without the 0x
\* prefix and, for a withdrawal, the amount 1000
TestArgs ==
  { << <<"0">>, SubSeq(toHexString(2), 3, Len(toHexString(2))) >>,
    << <<"1">>, SubSeq(toHexString(2), 3, Len(toHexString(2))), <<"1", "0", "0", "0">> >> }
ArgLists ==
  SentArgs \cup
  { <<>>, << <<"2">>, toHexString(1) >>, << <<>>, toHexString(1) >>,
    << <<"x">>, toHexString(1) >>,
    << <<" ", "1">>, toHexString(1), <<"1">> >>,
    << <<"0", "x", "1">>, toHexString(1), <<"1", "e", "1", "8">> >>,
    << <<"1", ".", "0">>, toHexString(1), <<"1", ".", "5">> >>,
    << <<"1", "e", "0">>, toHexString(1) >>,
    << <<"-", "0">>, toHexString(1) >>,
    << <<"0", "b", "0">>, toHexString(1) >>,
    << <<"1", ".", "5">>, toHexString(1), <<"1">> >>,
    << <<"1", "e">>, toHexString(1), <<"1">> >>,
    << <<"1">>, toHexString(1),
       <<"1", "0", "0", "0", "0", "0", "0", "0", "0", "0",
         "0", "0", "0", "0", "0", "0", "1", "0", "0">> >> } \cup TestArgs

RunScript ==
  \E a \in ArgLists, key \in ApiKeys :
    Begin(0, a, key) /\ UNCHANGED <<chain, oracleRequests>>

EndRun == pc = "done" /\ idle /\ UNCHANGED <<chain, oracleRequests>>

NextScript ==
  \/ RunScript \/ EndRun
  \/ RegisterResponse \/ RiskResponse
  \/ RegistrationResponse \/ ExposuresResponse \/ AlertsResponse

SpecScript == Init /\ [][NextScript]_vars

\* ---- the vault, the oracle and the script together
\* sendRequest hands the args of a dispatch that went through to the oracle
logged ==
  /\ oracleRequests' = IF last'.error = "" THEN [oracleRequests EXCEPT ![last'.id] = last'.args]
                       ELSE oracleRequests
  /\ UNCHANGED <<runId, scriptArgs, apiKey, pc, httpRequests, httpResponses, result, task>>

SendDeposit ==
  /\ nextId <= MaxComposedRequests
  /\ \E sender \in Principals, value \in Amounts : Deposit(sender, value) /\ logged

SendWithdrawal ==
  /\ nextId <= MaxComposedRequests
  /\ \E sender \in Principals, amount \in Amounts : Withdrawal(sender, amount) /\ logged

\* simulateRequestAndFulfill(registry, requestId, config), first half: the
\* helper runs the script on the args and the secrets of the config its
\* caller passes, for the request id of a request transaction; the args
\* need not be the ones the vault sent (here: those, or the args of the
\* tests), and the helper keeps no record of the ids it has served
OracleRun ==
  \E id \in IssuedIds, key \in ApiKeys :
    /\ oracleRequests[id] # <<>>
    /\ \E a \in {oracleRequests[id]} \cup TestArgs : Begin(id, a, key)
    /\ UNCHANGED <<chain, oracleRequests>>

\* fulfillAndBill(requestId, success ? result : "0x", success ? "0x" : result)
fulfilment_swapped(res) ==
  << IF res.success THEN <<>> ELSE res.result, IF res.success THEN res.result ELSE <<>> >>

fulfilment(res) ==
  << IF res.success THEN res.result ELSE <<>>, IF res.success THEN <<>> ELSE res.result >>

\* the oracle delivers the outcome of the finished run to the vault
OracleFulfill ==
  /\ pc = "done"
  /\ runId # 0
  /\ \E accepted \in Accepts(s_pending[runId].requester, fulfilment(result)[1],
                              fulfilment(result)[2]) :
       Fulfill(runId, fulfilment(result)[1], fulfilment(result)[2], accepted)
  /\ idle
  /\ UNCHANGED <<oracleRequests, task>>

NextChecker ==
  \/ SendDeposit \/ SendWithdrawal \/ OracleRun \/ OracleFulfill
  \/ RegisterResponse \/ RiskResponse
  \/ RegistrationResponse \/ ExposuresResponse \/ AlertsResponse

SpecChecker == Init /\ [][NextChecker]_vars

\* -------------------------------------------------------------- vocabulary
Live(pend, id) == pend[id].requester # ZeroAddress

RECURSIVE SumOver(_, _)
SumOver(f, S) ==
  IF S = {} THEN 0
  ELSE LET x == CHOOSE y \in S : TRUE IN f[x] + SumOver(f, S \ {x})

\* amounts of the live pending Deposit entries
PendingDepositTotal ==
  SumOver([id \in AllIds |-> IF Live(s_pending, id) /\ s_pending[id].requestType = "Deposit"
                             THEN s_pending[id].amount ELSE 0], AllIds)

TypeOK ==
  /\ s_balances \in [Principals -> Int]
  /\ vaultEth \in Int
  /\ nextId \in 1..(MaxRequests + 1)
  /\ \A id \in AllIds : s_pending[id].requester \in Principals \cup {ZeroAddress}

\* this step is a callback naming id
CallbackFor(id) == last'.op = "fulfillRequest" /\ last'.id = id

LiveOfKind(id, kind) == Live(s_pending, id) /\ s_pending[id].requestType = kind

\* the success payload, read as a 32-byte big-endian unsigned integer, is n
DecodedIs(response, n) == toBytes32(response) = encodeUint256(n)

\* the success payloads that decode to 1, and those that decode to another value
ApprovedResponses == { response \in Responses : DecodedIs(response, 1) }
RejectedResponses == { response \in Responses : ~DecodedIs(response, 1) }

\* the payload pairs whose error payload is non-empty
ErrorPayloads == { payload \in Payloads : Len(payload[2]) > 0 }

\* the single log the last transaction emitted has this name
LastEmitted(name) == Len(last.events) = 1 /\ last.events[1].name = name

\* --------------------------------------------------------------------- C1
\* C1: in every reachable state every principal's Balance is >= 0; an
\* approved withdrawal never takes the requester's Balance below zero.
C1_BalancesNonNegative == \A p \in Principals : s_balances[p] >= 0

\* an approved withdrawal has just emptied the requester's Balance
C1_Witness ==
  /\ LastEmitted("WithdrawalRequestFulfilled")
  /\ s_balances[last.events[1].args[2]] = 0

\* --------------------------------------------------------------------- C2
\* C2: per request id at most one Approved / Rejected / Errored effect is
\* ever applied, and every callback naming an id whose entry was already
\* consumed changes no Balance, pays nothing, changes no registry entry and
\* emits only NoPendingRequest.
C2_AtMostOneEffect ==
  [][\A id \in AllIds :
       /\ applied'[id] <= 1
       /\ (applied[id] >= 1 /\ CallbackFor(id)) =>
            /\ UNCHANGED <<s_balances, s_pending, vaultEth, held, applied>>
            /\ last'.error = ""
            /\ last'.events = <<NoPendingRequest>>]_vars

\* a second callback has named a request id that was already consumed
C2_Witness ==
  \E id \in IssuedIds :
    /\ applied[id] = 1
    /\ last = Call("fulfillRequest", id, "", <<NoPendingRequest>>)

\* --------------------------------------------------------------------- C3
\* C3: after a callback naming a live PendingRequest, that entry is no
\* longer live, whatever the outcome (error, approved or rejected Deposit
\* or Withdrawal, an approved Withdrawal above the current Balance, a payout
\* or refund the recipient does not accept).
C3_CallbackRetiresEntry ==
  [][\A id \in AllIds :
       (Live(s_pending, id) /\ CallbackFor(id)) => ~Live(s_pending', id)]_vars

\* --------------------------------------------------------------------- C4
\* C4: the funds the vault holds outside every Balance equal the amounts of
\* the live pending Deposit entries.
C4_EscrowEqualsPendingDeposits ==
  vaultEth - SumOver(s_balances, Principals) = PendingDepositTotal

\* --------------------------------------------------------------------- C5
\* C5: an approved callback (success payload decoding to 1, no error) for a
\* live pending Deposit (r, a) increases Balance[r] by exactly a, leaves
\* every other Balance unchanged, pays nothing out and emits
\* DepositRequestFulfilled.
C5_DepositApproved ==
  [][\A id \in AllIds :
       (CallbackFor(id) /\ LiveOfKind(id, "Deposit")) =>
       \A response \in ApprovedResponses, accepted \in BOOLEAN :
       Fulfill(id, response, <<>>, accepted) =>
         LET r == s_pending[id].requester
             a == s_pending[id].amount
         IN /\ s_balances'[r] = s_balances[r] + a
            /\ \A p \in Principals \ {r} : s_balances'[p] = s_balances[p]
            /\ vaultEth' = vaultEth
            /\ held' = held
            /\ last'.error = ""
            /\ last'.events = <<DepositRequestFulfilled(id, r, a)>>]_vars

\* a deposit has just been credited on top of an earlier credit
C5_Witness ==
  /\ LastEmitted("DepositRequestFulfilled")
  /\ s_balances[last.events[1].args[2]] > last.events[1].args[3]

\* --------------------------------------------------------------------- C6
\* C6: a rejected callback (success payload decoding to a value other than
\* 1, no error) for a live pending Deposit (r, a) leaves every Balance
\* unchanged, returns exactly a to r and emits DepositRequestCancelled.
C6_DepositRejected ==
  [][\A id \in AllIds :
       (CallbackFor(id) /\ LiveOfKind(id, "Deposit")) =>
       \A response \in RejectedResponses, accepted \in BOOLEAN :
       Fulfill(id, response, <<>>, accepted) =>
         LET r == s_pending[id].requester
             a == s_pending[id].amount
         IN /\ s_balances' = s_balances
            /\ vaultEth' = vaultEth - a
            /\ held' = [held EXCEPT ![r] = @ - a]
            /\ last'.events = <<DepositRequestCancelled(id, r, a)>>]_vars

\* --------------------------------------------------------------------- C7
\* C7: an approved callback for a live pending Withdrawal (r, a) decreases
\* Balance[r] by exactly a, pays exactly a to r, leaves every other Balance
\* unchanged and emits WithdrawalRequestFulfilled.
C7_WithdrawalApproved ==
  [][\A id \in AllIds :
       (CallbackFor(id) /\ LiveOfKind(id, "Withdrawal")) =>
       \A response \in ApprovedResponses, accepted \in BOOLEAN :
       Fulfill(id, response, <<>>, accepted) =>
         LET r == s_pending[id].requester
             a == s_pending[id].amount
         IN /\ s_balances' = [s_balances EXCEPT ![r] = @ - a]
            /\ vaultEth' = vaultEth - a
            /\ held' = [held EXCEPT ![r] = @ - a]
            /\ last'.events = <<WithdrawalRequestFulfilled(id, r, a)>>]_vars

\* --------------------------------------------------------------------- C8
\* C8: a rejected callback for a live pending Withdrawal leaves every
\* Balance unchanged, performs no payout and emits
\* WithdrawalRequestCancelled.
C8_WithdrawalRejected ==
  [][\A id \in AllIds :
       (CallbackFor(id) /\ LiveOfKind(id, "Withdrawal")) =>
       \A response \in RejectedResponses, accepted \in BOOLEAN :
       Fulfill(id, response, <<>>, accepted) =>
         /\ s_balances' = s_balances
         /\ vaultEth' = vaultEth
         /\ held' = held
         /\ last'.error = ""
         /\ last'.events = <<WithdrawalRequestCancelled(id, s_pending[id].requester,
                                                        s_pending[id].amount)>>]_vars

\* a withdrawal has just been cancelled and the requester keeps the Balance
C8_Witness ==
  /\ LastEmitted("WithdrawalRequestCancelled")
  /\ s_balances[last.events[1].args[2]] >= last.events[1].args[3]
  /\ ~Live(s_pending, last.id)

\* --------------------------------------------------------------------- C9
\* C9: a callback with a non-empty error payload for a live pending request
\* of either kind changes no Balance and moves no funds, whatever the
\* success payload holds; it emits RequestFailed and retires the entry.
C9_ErrorMovesNothing ==
  [][\A id \in AllIds :
       (CallbackFor(id) /\ Live(s_pending, id)) =>
       \A payload \in ErrorPayloads, accepted \in BOOLEAN :
       Fulfill(id, payload[1], payload[2], accepted) =>
         /\ s_balances' = s_balances
         /\ vaultEth' = vaultEth
         /\ held' = held
         /\ last'.error = ""
         /\ last'.events = <<RequestFailed(payload[2])>>
         /\ ~Live(s_pending', id)]_vars

\* an error callback has just retired a request that had been dispatched
C9_Witness ==
  /\ LastEmitted("RequestFailed")
  /\ last.id \in IssuedIds
  /\ applied[last.id] = 1
  /\ ~Live(s_pending, last.id)

\* -------------------------------------------------------------------- C10
\* C10: a callback naming a request id with no live entry (never issued or
\* already consumed) changes no Balance, no registry entry and no held
\* funds, for any payload, and emits only NoPendingRequest.
C10_UnknownCallbackNoOp ==
  [][\A id \in AllIds :
       (~Live(s_pending, id) /\ CallbackFor(id)) =>
         /\ UNCHANGED <<s_balances, s_pending, vaultEth, held, applied, nextId>>
         /\ last'.error = ""
         /\ last'.events = <<NoPendingRequest>>]_vars

\* a callback has named a never-issued id while other requests are pending
C10_Witness ==
  /\ last = Call("fulfillRequest", MaxRequests + 1, "", <<NoPendingRequest>>)
  /\ \E id \in IssuedIds : Live(s_pending, id)

\* -------------------------------------------------------------------- C11
\* the names of the six terminal events of a callback
TerminalEvents ==
  { "DepositRequestFulfilled", "DepositRequestCancelled",
    "WithdrawalRequestFulfilled", "WithdrawalRequestCancelled",
    "RequestFailed", "NoPendingRequest" }

\* C11: every callback completes without reverting and emits exactly one
\* terminal event; no failure after dispatch (a debit the Balance does not
\* cover, a payout the recipient does not take) makes the callback fail.
C11_CallbackNeverFails ==
  [][\A id \in AllIds :
       CallbackFor(id) =>
         /\ last'.error = ""
         /\ Len(last'.events) = 1
         /\ last'.events[1].name \in TerminalEvents]_vars

\* -------------------------------------------------------------------- C12
\* C12: an approved callback for a live pending Withdrawal (r, a) either
\* decreases Balance[r] by exactly a and pays exactly a to r, or changes no
\* Balance and moves no funds; never debited without payout, never paid
\* without debit.
C12_DebitAllOrNothing ==
  [][\A id \in AllIds :
       (CallbackFor(id) /\ LiveOfKind(id, "Withdrawal")) =>
       \A response \in ApprovedResponses, accepted \in BOOLEAN :
       Fulfill(id, response, <<>>, accepted) =>
         LET r == s_pending[id].requester
             a == s_pending[id].amount
         IN \/ /\ s_balances' = [s_balances EXCEPT ![r] = @ - a]
               /\ vaultEth' = vaultEth - a
               /\ held' = [held EXCEPT ![r] = @ - a]
            \/ /\ s_balances' = s_balances
               /\ vaultEth' = vaultEth
               /\ held' = held]_vars

\* an approved withdrawal above the Balance has just been rolled back: an
\* earlier withdrawal was paid, this one left Balance and funds untouched
C12_Witness ==
  /\ last.op = "fulfillRequest"
  /\ last.error = "Panic"
  /\ LiveOfKind(last.id, "Withdrawal")
  /\ s_balances[s_pending[last.id].requester] < s_pending[last.id].amount
  /\ held[s_pending[last.id].requester] = 0

\* -------------------------------------------------------------------- C13
\* the storage and per-principal held funds after the callback
\* fulfillRequest(id, payload[1], payload[2]) is delivered in st
Deliver(st, id, payload, accepted) ==
  LET r == fulfillRequest(st.bal, st.pend, st.eth, id, payload[1], payload[2], accepted)
      requester == st.pend[id].requester
  IN [bal |-> r.bal, pend |-> r.pend, eth |-> r.eth,
      held |-> IF r.paid > 0 THEN [st.held EXCEPT ![requester] = @ - r.paid] ELSE st.held]

\* the current storage and held funds
Current == [bal |-> s_balances, pend |-> s_pending, eth |-> vaultEth, held |-> held]

\* C13: for two simultaneously live pending requests with a fixed outcome
\* each, the Balances, the payouts per principal and the registry after both
\* callbacks are the same whichever callback is delivered first. (Any
\* delivery order of a larger set is a chain of such adjacent swaps.)
C13_OrderIndependent ==
  \A i, j \in IssuedIds :
    (i < j /\ Live(s_pending, i) /\ Live(s_pending, j)) =>
    \A pi, pj \in Payloads :
    \A ai \in Accepts(s_pending[i].requester, pi[1], pi[2]),
       aj \in Accepts(s_pending[j].requester, pj[1], pj[2]) :
      LET ij == Deliver(Deliver(Current, i, pi, ai), j, pj, aj)
          ji == Deliver(Deliver(Current, j, pj, aj), i, pi, ai)
      IN /\ ij.bal = ji.bal
         /\ ij.held = ji.held
         /\ ij.pend = ji.pend

\* -------------------------------------------------------------------- C14
\* this step applies the approved effect of the live entry under id: the
\* credit of a Deposit, the debit and payout of a Withdrawal
ApprovedEffect(id) ==
  LET r == s_pending[id].requester
      a == s_pending[id].amount
  IN IF s_pending[id].requestType = "Deposit"
     THEN /\ s_balances' = [s_balances EXCEPT ![r] = @ + a]
          /\ vaultEth' = vaultEth
          /\ held' = held
     ELSE /\ s_balances' = [s_balances EXCEPT ![r] = @ - a]
          /\ vaultEth' = vaultEth - a
          /\ held' = [held EXCEPT ![r] = @ - a]

\* this step applies the rejected effect of the live entry under id: the
\* refund of a Deposit, nothing for a Withdrawal
RejectedEffect(id) ==
  LET r == s_pending[id].requester
      a == s_pending[id].amount
  IN IF s_pending[id].requestType = "Deposit"
     THEN /\ s_balances' = s_balances
          /\ vaultEth' = vaultEth - a
          /\ held' = [held EXCEPT ![r] = @ - a]
     ELSE /\ s_balances' = s_balances
          /\ vaultEth' = vaultEth
          /\ held' = held

\* C14: for a live pending request and a callback without error, the
\* approved effect is applied if and only if the success payload decodes to
\* exactly 1, and every other value yields the rejected effect.
C14_BinaryGate ==
  [][\A id \in AllIds :
       (CallbackFor(id) /\ Live(s_pending, id)) =>
       \A response \in Responses, accepted \in BOOLEAN :
       Fulfill(id, response, <<>>, accepted) =>
         /\ ApprovedEffect(id) <=> DecodedIs(response, 1)
         /\ ~DecodedIs(response, 1) => RejectedEffect(id)]_vars

\* -------------------------------------------------------------------- C15
\* C15: requestDeposit with zero value and requestWithdrawal with zero
\* amount revert with ZeroAmount and change nothing: no request id is
\* taken from the oracle, no PendingRequest is stored, no Balance and no
\* held funds change, nothing is logged.
C15_ZeroAmountRejected ==
  [][\A sender \in Principals :
       (Deposit(sender, 0) \/ Withdrawal(sender, 0)) =>
         /\ last'.error = "ZeroAmount"
         /\ last'.events = <<>>
         /\ UNCHANGED <<s_balances, s_pending, vaultEth, nextId, held, applied>>]_vars

\* a zero-amount withdrawal has just been refused although some Balance
\* is positive and a request is pending
C15_Witness ==
  /\ last = Call("requestWithdrawal", 0, "ZeroAmount", <<>>)
  /\ \A p \in Principals : s_balances[p] > 0
  /\ \E id \in IssuedIds : Live(s_pending, id)

\* -------------------------------------------------------------------- C16
\* C16: requestWithdrawal with amount above the caller's Balance reverts
\* with InsufficientBalance, takes no request id from the oracle and stores
\* no entry, pending Deposits of the caller notwithstanding; with
\* 0 < amount <= Balance it succeeds.
C16_InsufficientBalanceRejected ==
  [][\A sender \in Principals, amount \in Amounts :
       Withdrawal(sender, amount) =>
         /\ amount > s_balances[sender] =>
              /\ last'.error = "InsufficientBalance"
              /\ last'.events = <<>>
              /\ UNCHANGED <<s_balances, s_pending, vaultEth, nextId, held, applied>>
         /\ (0 < amount /\ amount <= s_balances[sender]) =>
              /\ last'.error = ""
              /\ nextId' = nextId + 1
              /\ Live(s_pending', last'.id)]_vars

\* a withdrawal has just been refused for insufficient Balance while every
\* principal, the caller included, has a live pending Deposit and Balance 0
C16_Witness ==
  /\ last = Call("requestWithdrawal", 0, "InsufficientBalance", <<>>)
  /\ \A p \in Principals :
       /\ s_balances[p] = 0
       /\ \E id \in IssuedIds : LiveOfKind(id, "Deposit") /\ s_pending[id].requester = p

\* -------------------------------------------------------------------- C17
\* C17: a successful requestDeposit or requestWithdrawal leaves every
\* Balance unchanged, stores exactly one PendingRequest (caller, amount,
\* kind) under the id the oracle returned, which held no entry, and leaves
\* every other entry unchanged; the deposit's value is escrowed in the
\* vault, the withdrawal pays nothing.
C17_DispatchFrame ==
  [][\A sender \in Principals, amount \in Amounts :
       /\ (Deposit(sender, amount) /\ last'.error = "") =>
            /\ s_balances' = s_balances
            /\ last'.id = executeRequest(nextId)
            /\ ~Live(s_pending, last'.id)
            /\ s_pending' = [s_pending EXCEPT ![last'.id] =
                 [requester |-> sender, amount |-> amount, requestType |-> "Deposit"]]
            /\ vaultEth' = vaultEth + amount
            /\ held' = [held EXCEPT ![sender] = @ + amount]
       /\ (Withdrawal(sender, amount) /\ last'.error = "") =>
            /\ s_balances' = s_balances
            /\ last'.id = executeRequest(nextId)
            /\ ~Live(s_pending, last'.id)
            /\ s_pending' = [s_pending EXCEPT ![last'.id] =
                 [requester |-> sender, amount |-> amount, requestType |-> "Withdrawal"]]
            /\ vaultEth' = vaultEth
            /\ held' = held]_vars

\* a withdrawal has just been dispatched next to another pending request:
\* the caller's Balance still covers it and nothing has been paid
C17_Witness ==
  /\ last.op = "requestWithdrawal"
  /\ last.error = ""
  /\ LiveOfKind(last.id, "Withdrawal")
  /\ s_balances[s_pending[last.id].requester] >= s_pending[last.id].amount
  /\ held[s_pending[last.id].requester] >= s_pending[last.id].amount
  /\ \E id \in IssuedIds \ {last.id} : Live(s_pending, id)

\* -------------------------------------------------------------------- C18
\* C18: a live PendingRequest is removed only by a callback naming its id
\* and is never altered: a step that is not such a callback (requestDeposit,
\* requestWithdrawal, a callback for another id, an owner operation) leaves
\* the entry as it is and applies no effect to it, a callback naming it
\* either removes it or leaves it as it is, and no effect has been applied
\* to an entry that is live (its deposit is neither credited nor refunded).
C18_OnlyOwnCallbackRetires ==
  [][\A id \in AllIds :
       Live(s_pending, id) =>
         /\ applied[id] = 0
         /\ s_pending'[id] \in {s_pending[id], NoRequest}
         /\ ~CallbackFor(id) =>
              /\ s_pending'[id] = s_pending[id]
              /\ applied'[id] = 0]_vars

\* a pending deposit is still live and untouched after a later request was
\* dispatched and consumed by its callback and the owner changed the source
C18_Witness ==
  /\ last = Call("updateSource", 0, "", <<>>)
  /\ s_source = 1
  /\ LiveOfKind(1, "Deposit")
  /\ applied[1] = 0
  /\ \E id \in IssuedIds \ {1} : applied[id] = 1

\* -------------------------------------------------------------------- C19
\* the storage and held funds after requestDeposit{value}() by sender is
\* given the request id by the oracle (a reverted call leaves st as it is)
DispatchDeposit(st, id, sender, value) ==
  IF requestDepositError(value) # "" THEN st
  ELSE [st EXCEPT !.pend[id] = PendingRequest(sender, value, "Deposit"),
                  !.eth = @ + value,
                  !.held[sender] = @ + value]

\* the same for requestWithdrawal(amount) by sender
DispatchWithdrawal(st, id, sender, amount) ==
  IF requestWithdrawalError(st.bal, sender, amount) # "" THEN st
  ELSE [st EXCEPT !.pend[id] = PendingRequest(sender, amount, "Withdrawal")]

\* the approved outcome: the success payload 1 and no error
Approved == <<encodeUint256(1), <<>>>>

\* deposit of a by p, approved, then withdrawal of a by p, approved, run
\* from the current state with the next two request ids; accepted is
\* whether p takes the payout
RoundTrip(p, a, accepted) ==
  LET deposited == Deliver(DispatchDeposit(Current, nextId, p, a), nextId, Approved, TRUE)
  IN Deliver(DispatchWithdrawal(deposited, nextId + 1, p, a), nextId + 1, Approved, accepted)

\* C19: from any reachable state, for every principal p and positive amount
\* a, a deposit of a that is approved followed by a withdrawal of a that is
\* approved returns every Balance to its value before the deposit, has paid
\* out to p exactly the a that p sent in, and leaves no pending entry behind.
C19_RoundTrip ==
  \A p \in Principals, a \in Amounts \ {0} :
    nextId + 1 <= MaxRequests =>
    \A accepted \in Accepts(p, Approved[1], Approved[2]) :
      LET end == RoundTrip(p, a, accepted)
      IN /\ end.bal = s_balances
         /\ end.held = held
         /\ end.eth = vaultEth
         /\ end.pend = s_pending

\* -------------------------------------------------------------------- C20
\* the events declared with (requestId, requester, amount)
RequestEvents ==
  { "DepositRequest", "WithdrawalRequest",
    "DepositRequestFulfilled", "DepositRequestCancelled",
    "WithdrawalRequestFulfilled", "WithdrawalRequestCancelled" }

\* the request this step concerns: the entry a dispatch has just stored,
\* the entry a callback found under the id it names
Concerned ==
  IF last'.op = "fulfillRequest" THEN s_pending[last'.id] ELSE s_pending'[last'.id]

\* the event carries the id this step concerns with the requester and the
\* amount of that request
CarriesRequest(e) ==
  e.args = <<last'.id, Concerned.requester, Concerned.amount>>

\* C20 as stated: every event emitted (the two request events, the four
\* fulfilled/cancelled events, RequestFailed, NoPendingRequest) carries the
\* requestId it concerns with the principal and the amount of that request.
C20_EventsCarryRequest ==
  [][\A i \in DOMAIN last'.events :
       last'.events[i].name \in RequestEvents \cup {"RequestFailed", "NoPendingRequest"} =>
         CarriesRequest(last'.events[i])]_vars

\* C20 amended: the two request events and the four fulfilled/cancelled
\* events carry the requestId with the principal and the amount of the
\* request; RequestFailed carries only the error payload of the callback and
\* NoPendingRequest carries nothing.
C20_EventsCarryDeclared ==
  [][\A i \in DOMAIN last'.events :
       LET e == last'.events[i]
       IN /\ e.name \in RequestEvents \cup {"RequestFailed", "NoPendingRequest"}
          /\ e.name \in RequestEvents => CarriesRequest(e)
          /\ e.name = "RequestFailed" => (Len(e.args) = 1 /\ e.args[1] \in Errors \ {<<>>})
          /\ e.name = "NoPendingRequest" => e.args = <<>>]_vars

\* an error callback for the first request has emitted RequestFailed with
\* the error payload alone, while the contract account has value in the vault
C20_Witness ==
  /\ last = Call("fulfillRequest", 1, "", <<Event("RequestFailed", << <<69>> >>)>>)
  /\ held[2] > 0
  /\ applied[1] = 1

\* -------------------------------------------------------------------- C21
\* the HTTP requests of the deposit check for address
DepositCheckRequests(address) ==
  << [method |-> "POST", url |-> "risk/v2/entities", param |-> <<>>, data |-> <<address>>],
     [method |-> "GET", url |-> "risk/v2/entities/", param |-> address, data |-> <<>>] >>

\* the registration request of the withdrawal check for address and an
\* amount in wei, registered as amount / 10^18
WithdrawalCheckRegistration(address, amount) ==
  [method |-> "POST", url |-> "kyt/v2/users/withdrawal-attempts", param |-> <<>>,
   data |-> <<address, DividedByPowerOfTen(FromInt(amount), 18)>>]

\* the run serves the pending request e with the check of its kind: every
\* request it has issued belongs to that check and names e's requester
\* (and, for a Withdrawal, e's amount)
RunsCheckOf(e) ==
  /\ Len(httpRequests) >= 1
  /\ IF e.requestType = "Deposit"
     THEN /\ Len(httpRequests) <= 2
          /\ \A i \in 1..Len(httpRequests) :
               httpRequests[i] = DepositCheckRequests(toHexString(e.requester))[i]
     ELSE /\ httpRequests[1] = WithdrawalCheckRegistration(toHexString(e.requester), e.amount)
          /\ \A i \in 2..Len(httpRequests) :
               httpRequests[i].url \in { "kyt/v2/users/withdrawal-attempts",
                                         "kyt/v2/withdrawal-attempts/exposures",
                                         "kyt/v2/withdrawal-attempts/alerts" }

\* C21: requestDeposit sends exactly the args ["0", sender as hexadecimal
\* address] and requestWithdrawal exactly ["1", sender, amount in decimal],
\* and a run of the script on the args the vault sent for a pending request
\* executes the
\* deposit check for a Deposit and the withdrawal check with the requester's
\* address and the amount for a Withdrawal.
C21_ArgsAgreeWithChecker ==
  [][/\ \A sender \in Principals, amount \in Amounts :
          /\ (Deposit(sender, amount) /\ last'.error = "") =>
               last'.args = << <<"0">>, toHexString(sender) >>
          /\ (Withdrawal(sender, amount) /\ last'.error = "") =>
               last'.args = << <<"1">>, toHexString(sender), toString(amount) >>
     /\ ((/\ runId # 0
          /\ apiKey # <<>>
          /\ Live(s_pending, runId)
          /\ scriptArgs = oracleRequests[runId]) =>
           RunsCheckOf(s_pending[runId]))']_vars

\* the oracle's run for a pending Withdrawal has gone through the whole
\* withdrawal check and returned
C21_Witness ==
  /\ runId # 0
  /\ LiveOfKind(runId, "Withdrawal")
  /\ scriptArgs = oracleRequests[runId]
  /\ pc = "done"
  /\ result.success
  /\ Len(httpRequests) = 3

\* -------------------------------------------------------------------- C22
\* the run is a deposit check / a withdrawal check that returned a buffer
DepositCheckReturned ==
  /\ pc = "done"
  /\ result.success
  /\ httpRequests[1].url = "risk/v2/entities"

WithdrawalCheckReturned ==
  /\ pc = "done"
  /\ result.success
  /\ httpRequests[1].url = "kyt/v2/users/withdrawal-attempts"

\* the risk read reported the risk "Low"
ReportsLowRisk(response) ==
  Has(response.data, "risk") /\ response.data.risk = "Low"

\* C22: a deposit check that completes without error returns the 32-byte
\* word 1 if the risk read reported risk "Low" and the word 0 for every
\* other risk; it returns nothing else.
C22_DepositOutcome ==
  DepositCheckReturned =>
    /\ Len(httpResponses) = 2
    /\ Len(result.result) = WordBytes
    /\ DecodedIs(result.result, 1) <=> ReportsLowRisk(httpResponses[2])
    /\ DecodedIs(result.result, 0) <=> ~ReportsLowRisk(httpResponses[2])

\* a deposit check has returned 0 for the risk "Medium"
C22_Witness ==
  /\ DepositCheckReturned
  /\ httpResponses[2].data = [risk |-> "Medium"]
  /\ DecodedIs(result.result, 0)

\* -------------------------------------------------------------------- C23
\* the exposures read reported no direct exposure: direct.name is null
ReportsNoDirectExposure(response) ==
  /\ Has(response.data, "direct")
  /\ Has(response.data.direct, "name")
  /\ response.data.direct.name = Null

\* C23: a withdrawal check that completes without error returns the word 1
\* if the exposures read reported no direct exposure and the alerts read no
\* alert, and the word 0 if a direct exposure or at least one alert is
\* present; it returns nothing else.
C23_WithdrawalOutcome ==
  WithdrawalCheckReturned =>
    /\ Len(httpResponses) = 3
    /\ Len(result.result) = WordBytes
    /\ DecodedIs(result.result, 1) <=>
         (ReportsNoDirectExposure(httpResponses[2]) /\ Len(httpResponses[3].data.alerts) = 0)
    /\ DecodedIs(result.result, 0) <=>
         (~ReportsNoDirectExposure(httpResponses[2]) \/ Len(httpResponses[3].data.alerts) > 0)

\* a withdrawal check has returned 0 for alerts without a direct exposure
C23_Witness ==
  /\ WithdrawalCheckReturned
  /\ httpResponses[2].data = [direct |-> [name |-> Null]]
  /\ httpResponses[3].data = [alerts |-> <<"alert", "alert">>]
  /\ DecodedIs(result.result, 0)

\* -------------------------------------------------------------------- C24
\* the calls of each check in order, with the status each must return
DepositProtocol ==
  << [url |-> "risk/v2/entities", status |-> 201],
     [url |-> "risk/v2/entities/", status |-> 200] >>

WithdrawalProtocol ==
  << [url |-> "kyt/v2/users/withdrawal-attempts", status |-> 202],
     [url |-> "kyt/v2/withdrawal-attempts/exposures", status |-> 200],
     [url |-> "kyt/v2/withdrawal-attempts/alerts", status |-> 200] >>

\* the call came back with a status, and it is status
ReturnedStatus(response, status) ==
  Has(response, "status") /\ response.status = status

\* the requests issued so far are the first calls of protocol in order, and
\* every call before the last one issued has returned its expected status
Follows(protocol) ==
  /\ Len(httpRequests) <= Len(protocol)
  /\ Len(httpResponses) <= Len(httpRequests)
  /\ Len(httpRequests) <= Len(httpResponses) + 1
  /\ \A i \in 1..Len(httpRequests) :
       /\ httpRequests[i].url = protocol[i].url
       /\ \A j \in 1..(i - 1) : ReturnedStatus(httpResponses[j], protocol[j].status)

\* C24: in every run the registration call is the first HTTP request, each
\* read is issued only after every earlier call of the run returned its
\* expected status (201, 200 for a deposit check; 202, 200, 200 for a
\* withdrawal check), and nothing is issued after an unexpected status.
C24_CallOrder ==
  Len(httpRequests) >= 1 =>
    /\ httpRequests[1].method = "POST"
    /\ Follows(DepositProtocol) \/ Follows(WithdrawalProtocol)

\* a withdrawal check has stopped at the exposures read, which returned 403
\* after the registration returned 202: the alerts read was never issued
C24_Witness ==
  /\ pc = "done"
  /\ Len(httpRequests) = 2
  /\ httpRequests[2].url = "kyt/v2/withdrawal-attempts/exposures"
  /\ ReturnedStatus(httpResponses[1], 202)
  /\ ReturnedStatus(httpResponses[2], 403)

\* -------------------------------------------------------------------- C25
\* some call of the current run did not return the expected status: it
\* returned another status, or none (the error response object)
UnexpectedStatus ==
  /\ Len(httpResponses) >= 1
  /\ \E j \in 1..Len(httpResponses) :
       ~ReturnedStatus(httpResponses[j],
                       (IF httpRequests[1].url = "risk/v2/entities"
                          THEN DepositProtocol ELSE WithdrawalProtocol)[j].status)

\* C25: when a call of a run returns an unexpected status the run has ended
\* with a non-empty error and no encoded outcome, and the delivery of that
\* run hands the vault an empty response and the error as err: the callback
\* emits RequestFailed with that error and nothing else, and moves no funds.
C25_FailureIsRequestFailed ==
  [][/\ (UnexpectedStatus =>
           /\ pc = "done"
           /\ ~result.success
           /\ Len(result.result) > 0)'
     /\ (UnexpectedStatus /\ runId # 0 /\ Live(s_pending, runId) /\ pc' = "idle") =>
           /\ last'.op = "fulfillRequest"
           /\ last'.id = runId
           /\ last'.error = ""
           /\ last'.events = << [name |-> "RequestFailed", args |-> <<result.result>>] >>
           /\ s_balances' = s_balances
           /\ vaultEth' = vaultEth]_vars

\* the run of a pending request failed with status 403 and no status text,
\* and the vault has handled its delivery as RequestFailed("403"): the entry
\* is gone and no balance was credited
C25_Witness ==
  /\ last.op = "fulfillRequest"
  /\ last.error = ""
  /\ last.events = << [name |-> "RequestFailed", args |-> << <<52, 48, 51>> >>] >>
  /\ ~Live(s_pending, last.id)
  /\ \A user \in Principals : s_balances[user] = 0
  /\ pc = "idle"

\* -------------------------------------------------------------------- C26
\* a call of an administrative operation by caller with a new value: called
\* by the owner it succeeds and sets its own configuration value, called by
\* anyone else it fails and leaves every configuration value as it was
OwnerOnly(caller, value, new) ==
  IF caller = Owner
    THEN last'.error = "" /\ new = value
    ELSE last'.error # "" /\ config' = config

\* C26: updateOracleAddress, updateSubscriptionId, updateSource and
\* updateSecrets take effect only when invoked by the owner; invoked by any
\* other caller they fail and change no configuration value.
C26_OwnerOnly ==
  [][\A caller \in Principals, value \in ConfigValues :
       /\ updateOracleAddress(caller, value) => OwnerOnly(caller, value, s_oracle')
       /\ updateSubscriptionId(caller, value) => OwnerOnly(caller, value, s_subscriptionId')
       /\ updateSource(caller, value) => OwnerOnly(caller, value, s_source')
       /\ updateSecrets(caller, value) => OwnerOnly(caller, value, s_secrets')]_vars

\* a caller other than the owner has been refused after the owner had
\* changed the oracle address
C26_Witness ==
  /\ last.op = "updateOracleAddress"
  /\ last.error = "Only callable by owner"
  /\ s_oracle = 1

\* -------------------------------------------------------------------- C27
\* the live pending Withdrawals of a requester
LiveWithdrawals(user) ==
  {id \in AllIds : LiveOfKind(id, "Withdrawal") /\ s_pending[id].requester = user}

\* C27: requestWithdrawal decides on the current balance of the caller
\* alone: a non-zero amount is dispatched exactly when it does not exceed
\* the balance, whatever Withdrawals of the caller are already pending.
C27_EligibilityAtDispatch ==
  [][\A sender \in Principals, amount \in Amounts :
       Withdrawal(sender, amount) =>
         /\ last'.error = "" <=> (amount > 0 /\ amount <= s_balances[sender])
         /\ last'.error = "" =>
              LiveWithdrawals(sender)' = LiveWithdrawals(sender) \cup {last'.id}]_vars

\* an approval callback has arrived for a live Withdrawal whose amount
\* exceeds the balance of its requester: the amount did not exceed the
\* balance at dispatch, so a second Withdrawal of the requester, pending at
\* the same time, was paid out in between; the debit underflows and the
\* callback reverts
C27_Witness ==
  /\ last.op = "fulfillRequest"
  /\ last.error = "Panic"
  /\ LiveOfKind(last.id, "Withdrawal")
  /\ s_pending[last.id].amount > s_balances[s_pending[last.id].requester]

\* -------------------------------------------------------------------- C28
\* the oracle calls fulfillRequest for requestId, with whatever outcome
CallbackTo(requestId) ==
  \E payload \in Payloads :
    \E accepted \in Accepts(s_pending[requestId].requester, payload[1], payload[2]) :
      Fulfill(requestId, payload[1], payload[2], accepted) /\ UNCHANGED <<script, task>>

\* fair delivery: the oracle keeps calling back for every request id it has
\* handed out or will hand out; which outcome it delivers is up to the oracle
FairDelivery == \A requestId \in AllIds : WF_vars(CallbackTo(requestId))

SpecFair == Init /\ [][Next]_vars /\ FairDelivery

\* C28: under fair delivery of callbacks, with any outcome and with
\* redelivery, every live PendingRequest is eventually retired.
C28_EventuallyRetired ==
  \A id \in AllIds : Live(s_pending, id) ~> ~Live(s_pending, id)

\* -------------------------------------------------------------------- C29
\* C29: the funds the vault holds are at least the sum of all balances plus
\* the amounts of all live pending Deposits; so they cover the refund of
\* every live Deposit and the payout of every live Withdrawal whose amount
\* the balance of its requester covers.
C29_FundsCoverLiabilities ==
  /\ vaultEth >= SumOver(s_balances, Principals) + PendingDepositTotal
  /\ \A id \in AllIds :
       /\ LiveOfKind(id, "Deposit") => s_pending[id].amount <= vaultEth
       /\ (/\ LiveOfKind(id, "Withdrawal")
           /\ s_pending[id].amount <= s_balances[s_pending[id].requester])
            => s_pending[id].amount <= vaultEth

\* a rejected Deposit has been refunded while a balance is credited and
\* another Deposit is pending
C29_Witness ==
  /\ last.op = "fulfillRequest"
  /\ last.error = ""
  /\ Len(last.events) = 1
  /\ last.events[1].name = "DepositRequestCancelled"
  /\ SumOver(s_balances, Principals) > 0
  /\ PendingDepositTotal > 0

\* -------------------------------------------------------------------- C30
\* C30: for every principal the value paid out to it, refunds and payouts
\* together, never exceeds the value it has sent in with requestDeposit.
C30_NoExtraction == \A p \in Principals : held[p] >= 0

\* a principal has been paid out, by a Withdrawal, all it had sent in
C30_Witness ==
  /\ last.op = "fulfillRequest"
  /\ Len(last.events) = 1
  /\ last.events[1].name = "WithdrawalRequestFulfilled"
  /\ held[last.events[1].args[2]] = 0

\* -------------------------------------------------------------------- C31
\* C31: the balance of a principal changes, and value is paid to it, only
\* in a completed callback for a request whose recorded requester it is; no
\* dispatch and no callback for a request of another principal does either.
C31_PrincipalIsolation ==
  [][\A p \in Principals :
       (s_balances'[p] # s_balances[p] \/ held'[p] < held[p]) =>
         /\ last'.op = "fulfillRequest"
         /\ last'.error = ""
         /\ s_pending[last'.id].requester = p]_vars

\* a Deposit of principal 1 has been credited while a request of
\* principal 2 is pending: the balance of 2 is untouched
C31_Witness ==
  /\ last.op = "fulfillRequest"
  /\ Len(last.events) = 1
  /\ last.events[1] = [name |-> "DepositRequestFulfilled", args |-> <<last.id, 1, 1>>]
  /\ s_balances[1] = 1
  /\ s_balances[2] = 0
  /\ \E id \in AllIds : Live(s_pending, id) /\ s_pending[id].requester = 2

\* -------------------------------------------------------------------- C32
\* an entry was stored under id by a dispatch and no callback has retired
\* it since (told from the ids handed out and the effects applied, not
\* from the entry itself)
Outstanding(id) == id < nextId /\ applied[id] = 0

\* C32: every entry that is outstanding has a non-zero requester and a
\* non-zero amount, and the lookup test of the callback (requester is the
\* zero address) is true exactly for the ids with no outstanding entry.
C32_LiveEntriesNonZero ==
  \A id \in AllIds :
    /\ Outstanding(id) =>
         /\ s_pending[id].requester # ZeroAddress
         /\ s_pending[id].amount > 0
    /\ (s_pending[id].requester = ZeroAddress) <=> ~Outstanding(id)

\* a callback has just found no entry, while one entry is outstanding, one
\* was retired and one id was never handed out
C32_Witness ==
  /\ last.op = "fulfillRequest"
  /\ last.events = << [name |-> "NoPendingRequest", args |-> <<>>] >>
  /\ nextId = 3
  /\ applied[1] = 1
  /\ Outstanding(2)
  /\ s_pending[2].amount > 0

\* -------------------------------------------------------------------- C33
\* the five events of the transition table
TableEvents ==
  {"DepositRequestFulfilled", "DepositRequestCancelled",
   "WithdrawalRequestFulfilled", "WithdrawalRequestCancelled", "RequestFailed"}

\* C33: UnknownRequestType is never emitted: every live entry has kind
\* Deposit or Withdrawal, and every callback for a live entry ends in one
\* of the five events of the transition table.
C33_NeverUnknownRequestType ==
  [][/\ \A i \in 1..Len(last'.events) : last'.events[i].name # "UnknownRequestType"
     /\ \A id \in AllIds :
          /\ Live(s_pending, id) => s_pending[id].requestType \in {"Deposit", "Withdrawal"}
          /\ (Live(s_pending, id) /\ CallbackFor(id)) =>
               /\ Len(last'.events) = 1
               /\ last'.events[1].name \in TableEvents]_vars

\* -------------------------------------------------------------------- C34
\* the four owner operations
OwnerOperations ==
  {"updateOracleAddress", "updateSubscriptionId", "updateSource", "updateSecrets"}

\* C34: an owner operation, whoever calls it and whether or not requests
\* are pending, leaves every balance, every pending entry and the funds
\* held by the vault unchanged.
C34_OwnerOperationsFrame ==
  [][last'.op \in OwnerOperations =>
       /\ s_balances' = s_balances
       /\ s_pending' = s_pending
       /\ vaultEth' = vaultEth]_vars

\* the owner has changed the secrets while a request is pending and a
\* balance is credited
C34_Witness ==
  /\ last.op = "updateSecrets"
  /\ last.error = ""
  /\ s_secrets = 1
  /\ \E id \in AllIds : Live(s_pending, id)
  /\ \E p \in Principals : s_balances[p] > 0
  /\ vaultEth > 0

\* -------------------------------------------------------------------- C35
\* C35: a run started with the API key unset (the empty string) has ended
\* at once with the error that names the missing key, whatever its args: no
\* HTTP request was issued, and the request kind was not looked at (args of
\* no known kind get this error too, not 'Invalid request type').
C35_MissingApiKey ==
  (pc # "idle" /\ apiKey = <<>>) =>
    /\ pc = "done"
    /\ ~result.success
    /\ result.result = utf8(ApiKeyMissing)
    /\ httpRequests = <<>>
    /\ httpResponses = <<>>

\* a run on the args of a Withdrawal has ended with the missing-key error
C35_Witness ==
  /\ pc = "done"
  /\ apiKey = <<>>
  /\ Len(scriptArgs) = 3
  /\ scriptArgs[1] = <<"1">>
  /\ ~result.success
  /\ Len(result.result) = Len(ApiKeyMissing)
  /\ httpRequests = <<>>

\* -------------------------------------------------------------------- C36
\* the run in progress or just ended was started on args whose args[0],
\* read as a number, is neither the Deposit kind 0 nor the Withdrawal kind 1
NoKnownKind ==
  pc # "idle" /\ Number(Arg(scriptArgs, 1)) \notin {FromInt(0), FromInt(1)}

\* the run has ended with the error 'Invalid request type': no HTTP request
\* was issued and there is no encoded outcome
InvalidRequestTypeRaised ==
  /\ pc = "done"
  /\ ~result.success
  /\ result.result = utf8(InvalidRequestType)
  /\ httpRequests = <<>>
  /\ httpResponses = <<>>

\* C36, as stated: whenever args[0] is neither kind 0 nor kind 1, the run
\* raises 'Invalid request type', issues no HTTP request and returns no
\* encoded outcome.
C36_InvalidRequestType == NoKnownKind => InvalidRequestTypeRaised

\* C36: when the API key is not the empty string and args[0], read as a
\* number, is neither 0 nor 1, the run raises 'Invalid request type', issues
\* no HTTP request and returns no encoded outcome; with the key unset the
\* run raises the missing-key error instead, and likewise issues no HTTP
\* request and returns no encoded outcome.
C36_InvalidRequestTypeWithKey ==
  NoKnownKind =>
    /\ apiKey # <<>> => InvalidRequestTypeRaised
    /\ apiKey = <<>> =>
         /\ pc = "done"
         /\ ~result.success
         /\ result.result = utf8(ApiKeyMissing)
         /\ httpRequests = <<>>

\* a run with a key on args[0] = "2" has ended with 'Invalid request type'
C36_Witness ==
  /\ apiKey = <<"k", "e", "y">>
  /\ Len(scriptArgs) = 2
  /\ scriptArgs[1] = <<"2">>
  /\ InvalidRequestTypeRaised

\* ------------------------------------------------------------ request tasks
\* the two hardhat tasks that send a request to a deployed vault and wait
TaskNames == {"vault-request", "functions-vault-request"}

\* the events of the vault that both tasks listen to
VaultEvents ==
  {"RequestFailed", "DepositRequestFulfilled", "DepositRequestCancelled",
   "WithdrawalRequestFulfilled", "WithdrawalRequestCancelled"}

\* an event in the log of the chain; id is the request it was emitted for
ChainEvent(name, id) == [name |-> name, id |-> id]

\* what one fulfilment transaction of the oracle logs for request id when
\* the callback of the vault emitted events: the callback ran
\* (RequestFulfilled of the client after the events of the vault, BillingEnd
\* of the registry), or the callback failed and error, UserCallbackError or
\* UserCallbackRawError of the oracle, is logged with BillingEnd
FulfilmentLogs(id, events, error) ==
  IF error = ""
  THEN { ChainEvent(events[i].name, id) : i \in 1..Len(events) } \cup
       { ChainEvent("RequestFulfilled", id), ChainEvent("BillingEnd", id) }
  ELSE { ChainEvent(error, id), ChainEvent("BillingEnd", id) }

\* the requests the registry has fulfilled: it fulfils a request once
Fulfilled == { e.id : e \in emitted \cup observed }

\* the task starts: its promise executor registers the listeners
StartTask ==
  /\ taskPc = "idle"
  /\ \E name \in TaskNames : taskName' = name
  /\ taskPc' = "listening"
  /\ UNCHANGED <<taskRequestId, txRequestId, ocrResponseEventReceived,
                 billingEndEventReceived, resolved, emitted, observed,
                 vault, last, config, script>>

\* requestDeposit({value: amount}) with --deposit, else
\* requestWithdrawal(amount) with --withdraw: the signer of the task sends
\* the transaction and the vault runs it, while the executor is suspended
\* at the await of the call; with neither flag requestTx stays undefined,
\* requestTx.wait throws and the promise is left unsettled
SubmitRequest ==
  /\ taskPc = "listening"
  /\ nextId <= MaxComposedRequests
  /\ \E deposit \in BOOLEAN, withdraw \in BOOLEAN, amount \in Amounts,
        signer \in Principals \ ContractAccounts :
       IF deposit \/ withdraw
       THEN /\ IF deposit THEN Deposit(signer, amount) ELSE Withdrawal(signer, amount)
            /\ txRequestId' = IF last'.error = "" THEN last'.id ELSE 0
            /\ taskPc' = "requested"
       ELSE /\ txRequestId' = 0
            /\ taskPc' = "failed"
            /\ UNCHANGED <<vault, last, config>>
  /\ UNCHANGED <<taskName, taskRequestId, ocrResponseEventReceived,
                 billingEndEventReceived, resolved, emitted, observed, script>>

\* requestTx = await ...: the executor resumes with the transaction it
\* sent and goes on to await requestTx.wait(2)
ResumeRequest ==
  /\ taskPc = "requested"
  /\ taskPc' = "submitted"
  /\ UNCHANGED <<taskName, taskRequestId, txRequestId, ocrResponseEventReceived,
                 billingEndEventReceived, resolved, emitted, observed,
                 vault, last, config, script>>

\* await requestTx.wait(2) throws when the transaction reverted; else it
\* returns the receipt and the next statement reads
\* utils.getEtherscanURL(...): vault-request never defines utils, the
\* statement throws a ReferenceError and requestId stays unassigned;
\* functions-vault-request goes on to
\* requestId = requestTxReceipt.events[2].args.id.  Where the executor
\* throws, the promise is left unsettled.
ConfirmRequest ==
  /\ taskPc = "submitted"
  /\ IF txRequestId = 0 \/ taskName = "vault-request"
     THEN taskPc' = "failed" /\ UNCHANGED taskRequestId
     ELSE taskPc' = "waiting" /\ taskRequestId' = txRequestId
  /\ UNCHANGED <<taskName, txRequestId, ocrResponseEventReceived,
                 billingEndEventReceived, resolved, emitted, observed,
                 vault, last, config, script>>

\* somebody else sends a request to the same vault
OtherRequest ==
  /\ nextId <= MaxComposedRequests
  /\ RequestDeposit \/ RequestWithdrawal

\* the oracle fulfils a request of the vault that it has not fulfilled
\* before: the callback of the vault runs on the payload, and the
\* transaction logs the events of FulfilmentLogs
OracleFulfils ==
  \E id \in IssuedIds \ Fulfilled, payload \in Payloads :
    /\ id < nextId
    /\ \E accepted \in Accepts(s_pending[id].requester, payload[1], payload[2]) :
         Fulfill(id, payload[1], payload[2], accepted)
    /\ \E error \in IF last'.error = "" THEN {""}
                    ELSE {"UserCallbackError", "UserCallbackRawError"} :
         emitted' = emitted \cup FulfilmentLogs(id, last'.events, error)
    /\ UNCHANGED <<taskName, taskPc, taskRequestId, txRequestId, ocrResponseEventReceived,
                   billingEndEventReceived, resolved, observed, script>>

\* the listeners of vault-request: every one of them logs a line and
\* nothing else; none calls resolve
vaultRequestListener(e) ==
  UNCHANGED <<ocrResponseEventReceived, billingEndEventReceived, resolved>>

\* the listeners of functions-vault-request
functionsVaultRequestListener(e) ==
  IF e.name \in {"UserCallbackError", "UserCallbackRawError"}
  THEN /\ resolved' = (resolved \/ taskRequestId = e.id)
       /\ UNCHANGED <<ocrResponseEventReceived, billingEndEventReceived>>
  ELSE IF e.name = "RequestFulfilled"
  THEN IF e.id # taskRequestId
       THEN UNCHANGED <<ocrResponseEventReceived, billingEndEventReceived, resolved>>
       ELSE /\ ocrResponseEventReceived' = TRUE
            /\ resolved' = (resolved \/ billingEndEventReceived)
            /\ UNCHANGED billingEndEventReceived
  ELSE IF e.name = "BillingEnd"
  THEN IF taskRequestId = e.id
       THEN /\ billingEndEventReceived' = TRUE
            /\ resolved' = (resolved \/ ocrResponseEventReceived)
            /\ UNCHANGED ocrResponseEventReceived
       ELSE UNCHANGED <<ocrResponseEventReceived, billingEndEventReceived, resolved>>
  ELSE UNCHANGED <<ocrResponseEventReceived, billingEndEventReceived, resolved>>

\* the provider hands a logged event to the listener registered for it
DeliverEvent ==
  /\ taskPc \in {"listening", "requested", "submitted", "waiting", "failed"}
  /\ \E e \in emitted :
       /\ emitted' = emitted \ {e}
       /\ observed' = observed \cup {e}
       /\ IF taskName = "vault-request"
          THEN vaultRequestListener(e)
          ELSE functionsVaultRequestListener(e)
  /\ UNCHANGED <<taskName, taskPc, taskRequestId, txRequestId, vault, last, config, script>>

\* await new Promise(...) returns once resolve() was called: the task ends
ReturnTask ==
  /\ taskPc \in {"listening", "requested", "submitted", "waiting", "failed"}
  /\ resolved
  /\ taskPc' = "returned"
  /\ UNCHANGED <<taskName, taskRequestId, txRequestId, ocrResponseEventReceived,
                 billingEndEventReceived, resolved, emitted, observed,
                 vault, last, config, script>>

NextTask ==
  \/ StartTask \/ SubmitRequest \/ ResumeRequest \/ ConfirmRequest \/ OtherRequest
  \/ OracleFulfils \/ DeliverEvent \/ ReturnTask

SpecTask == Init /\ [][NextTask]_vars

\* -------------------------------------------------------------------- C37
\* the log of the chain holds, handed to the listeners of the task, both
\* RequestFulfilled and BillingEnd of the request the task sent
BothEventsObserved ==
  /\ txRequestId # 0
  /\ ChainEvent("RequestFulfilled", txRequestId) \in observed
  /\ ChainEvent("BillingEnd", txRequestId) \in observed

\* C37: functions-vault-request has finished waiting once RequestFulfilled
\* and BillingEnd of its request have both arrived and the request
\* transaction is confirmed, in whatever order the three happened; and it
\* finishes only on events of its own request.
C37_FinishesOnBothEvents ==
  taskName = "functions-vault-request" =>
    /\ (BothEventsObserved /\ taskPc \in {"waiting", "returned"}) => resolved
    /\ resolved => \E e \in observed : e.id = txRequestId

\* -------------------------------------------------------------------- C38
\* C38: vault-request has finished waiting once a fulfilled, cancelled or
\* failed event of the vault for the request it sent has been observed
\* after the request transaction was confirmed.
C38_WaitEnds ==
  (/\ taskName = "vault-request"
   /\ txRequestId # 0
   /\ taskPc \notin {"listening", "requested", "submitted"}
   /\ \E e \in observed : e.id = txRequestId /\ e.name \in VaultEvents)
    => resolved

====
